---- MODULE Spec2Model ----
(***************************************************************************)
(* Model of the SynapseAI orchestrator: the SQLite task/story store with   *)
(* its version-stamped compare-and-swap updates (orchestrator/db.py), the  *)
(* PM plan validation (orchestrator/agents/pm.py), the write guard         *)
(* (orchestrator/guard.py), the PLAN/DEV/QA state machine                  *)
(* (orchestrator/graph.py) and the resolution of a model configuration     *)
(* (orchestrator/llm_client.py with the loader of models.yaml).            *)
(***************************************************************************)
EXTENDS Integers, Sequences, FiniteSets, TLC

VARIABLES
    user_stories,   \* table user_stories: id -> [status, room_doc_path, version]
    tasks,          \* table tasks: id -> row
    calls,          \* store calls of the concurrent clients (one connection each)
    accepted,       \* history: per record, the number of update calls that returned normally
    ncalls,         \* number of store calls the clients have started
    fs_links,       \* file system: whether the link /r/l to /o exists
    guard_call,     \* the call of ensure_guarded_write under check
    state,          \* GraphState of the run
    pc,             \* the step the run is at
    worker_ctb,     \* the context of the worker invocation in progress
    compare,        \* compare_version of the story update in progress
    plan,           \* the plan response the PM got, and the task table it met
    roles_yaml,     \* file system: config/roles.yaml exists
    room_doc,       \* file system: the story's room document exists
    attachments,    \* file system: AGENTS.MD and BACKLOG.md exist
    dev_attempts,   \* history: per task, worker invocations made by dev_node
    qa_attempts,    \* history: per task, worker invocations made by qa_node
    exhausted,      \* history: tasks the router failed for exhausted retries
    writes,         \* history: file writes made by workers
    nexternal,      \* number of updates made by other writers during the run
    log,            \* history: worker calls and returns and store updates of the run
    llm_call        \* the call of pick_config under check, with its client

storeVars == <<user_stories, tasks, calls, accepted, ncalls>>
guardVars == <<fs_links, guard_call>>
runVars == <<state, pc, worker_ctb, compare, plan, roles_yaml, room_doc, attachments,
             dev_attempts, qa_attempts, exhausted, writes, nexternal, log>>
configVars == <<llm_call>>
vars == <<user_stories, tasks, calls, accepted, ncalls, fs_links, guard_call,
          state, pc, worker_ctb, compare, plan, roles_yaml, room_doc, attachments,
          dev_attempts, qa_attempts, exhausted, writes, nexternal, log, llm_call>>

(***************************************************************************)
(* Bounds                                                                  *)
(***************************************************************************)
MaxVersion == 3     \* largest expected version a store client supplies
MaxBatch == 2       \* longest batch handed to create_tasks by a store client
MaxCalls == 3       \* store calls the clients start in one behaviour
MaxPathLen == 4     \* longest write path (in symbols) handed to the guard
MaxInterference == 1    \* updates other writers make during one run

(***************************************************************************)
(* Values                                                                  *)
(***************************************************************************)
None == 0 - 1                       \* Python None where an Optional[int] is expected
SchemaDefaultVersion == 1           \* column default of version in stories and tasks

StoryIds == {"S1"}
TaskIds == {"S1.T01", "S1.T02"}
Clients == {"c1", "c2"}

NullPath == "NULL"
RoomDocPath(story_id) == "agent_framework/docs/US-" \o story_id \o ".md"

TaskStatuses == {"To Do", "In Progress", "Coding Complete", "QA Failed", "Done", "Failed"}

(***************************************************************************)
(* orchestrator/agents/pm.py: the plan and its validation.  A plan item is *)
(* a JSON value: dict says whether it is an object, keys which keys it     *)
(* has; a string-or-not value carries str; a list-or-not value carries     *)
(* list.  The text of an id is story "." name, story being the text before *)
(* its first dot.                                                          *)
(***************************************************************************)
Str(v) == [str |-> TRUE, v |-> v]
NotStr == [str |-> FALSE, v |-> "0"]
List(items) == [list |-> TRUE, items |-> items]
NotList == [list |-> FALSE, items |-> <<>>]

IdText(id) == IF id.story = "" THEN id.name ELSE id.story \o "." \o id.name

AllKeys == {"id", "kind", "description", "assignee_role", "dependencies", "acceptance", "estimate"}

\* One object of the plan the PM gets from the model (pm.py lines 70-74).
MockItem(story_id, name, role, deps) ==
    [dict |-> TRUE, keys |-> AllKeys,
     id |-> [str |-> TRUE, story |-> story_id, name |-> name],
     kind |-> "impl", description |-> "d-" \o name, assignee_role |-> role,
     dependencies |-> List(deps), acceptance |-> List(<<Str("criterion")>>),
     estimate |-> "S"]

llm_plan_response(story_id) ==
    [json |-> TRUE, list |-> TRUE, items |->
        <<MockItem(story_id, "T01", "DevOps", <<>>),
          MockItem(story_id, "T02", "FE", <<Str(story_id \o ".T01")>>),
          MockItem(story_id, "T03", "QA", <<Str(story_id \o ".T02")>>)>>]

required_keys == <<"id", "description", "assignee_role", "kind", "estimate">>
allowed_estimates == {"S", "M", "L"}

Get(dict, key, default) == IF key \in DOMAIN dict THEN dict[key] ELSE default

ItemGet(task_item, key, default) == IF key \in task_item.keys THEN task_item[key] ELSE default

startswith_story(task_id, story_id) == task_id.story = story_id

InvalidStrList(value) ==
    \/ ~value.list
    \/ \E i \in 1..Len(value.items) : ~value.items[i].str

\* Mutant: the duplicate-id test is missing.
ItemErrorNoDuplicateTest(task_item, story_id, seen_ids) ==
    IF ~task_item.dict THEN "not a dictionary"
    ELSE IF \E i \in 1..Len(required_keys) : required_keys[i] \notin task_item.keys
         THEN "missing required keys"
    ELSE IF ~task_item.id.str \/ ~startswith_story(task_item.id, story_id)
         THEN "id must start with the story id"
    ELSE IF InvalidStrList(ItemGet(task_item, "dependencies", List(<<>>)))
         THEN "invalid dependencies"
    ELSE IF \/ InvalidStrList(ItemGet(task_item, "acceptance", List(<<>>)))
            \/ ItemGet(task_item, "acceptance", List(<<>>)).items = <<>>
         THEN "invalid acceptance"
    ELSE IF task_item.estimate \notin allowed_estimates THEN "invalid estimate"
    ELSE "valid"

\* The tests _validate_plan makes on one item, in its order.
ItemError(task_item, story_id, seen_ids) ==
    IF ~task_item.dict THEN "not a dictionary"
    ELSE IF \E i \in 1..Len(required_keys) : required_keys[i] \notin task_item.keys
         THEN "missing required keys"
    ELSE IF ~task_item.id.str \/ ~startswith_story(task_item.id, story_id)
         THEN "id must start with the story id"
    ELSE IF IdText(task_item.id) \in seen_ids THEN "duplicate task id"
    ELSE IF InvalidStrList(ItemGet(task_item, "dependencies", List(<<>>)))
         THEN "invalid dependencies"
    ELSE IF \/ InvalidStrList(ItemGet(task_item, "acceptance", List(<<>>)))
            \/ ItemGet(task_item, "acceptance", List(<<>>)).items = <<>>
         THEN "invalid acceptance"
    ELSE IF task_item.estimate \notin allowed_estimates THEN "invalid estimate"
    ELSE "valid"

RECURSIVE validate_items(_, _, _, _)
validate_items(items, story_id, seen_ids, validated_tasks) ==
    IF items = <<>> THEN [ok |-> TRUE, tasks |-> validated_tasks]
    ELSE IF ItemError(Head(items), story_id, seen_ids) # "valid"
         THEN [ok |-> FALSE, tasks |-> <<>>]
    ELSE validate_items(Tail(items), story_id,
                        seen_ids \cup {IdText(Head(items).id)},
                        Append(validated_tasks,
                               [story_id |-> story_id, status |-> "To Do"] @@ Head(items)))

\* json.loads followed by _validate_plan; ok is FALSE where ValueError or
\* JSONDecodeError is raised.
validate_plan(response, story_id) ==
    IF ~response.json \/ ~response.list THEN [ok |-> FALSE, tasks |-> <<>>]
    ELSE validate_items(response.items, story_id, {}, <<>>)


TaskNames == {"T01", "T02", "T03"}
TaskName(task_id) == CHOOSE name \in TaskNames : "S1." \o name = task_id

\* A validated plan item (pm.py sets story_id and status).
PlanItem(task_id) ==
    [story_id |-> "S1", status |-> "To Do"] @@ MockItem("S1", TaskName(task_id), "FE", <<>>)

(***************************************************************************)
(* orchestrator/db.py                                                      *)
(***************************************************************************)
NotFound == 0 - 2                   \* _fetch_current_version raises ValueError

fetch_current_version(table, record_id) ==
    IF record_id \in DOMAIN table THEN table[record_id].version ELSE NotFound

\* Mutants of the UPDATE statement.
UpdateWhereId(table, record_id, column, value, compare_version) ==
    LET hit == record_id \in DOMAIN table
    IN  [rowcount |-> IF hit THEN 1 ELSE 0,
         table |-> IF hit
                   THEN [table EXCEPT ![record_id] =
                            [@ EXCEPT ![column] = value, !.version = @ + 1]]
                   ELSE table]

UpdateKeepVersion(table, record_id, column, value, compare_version) ==
    LET hit == record_id \in DOMAIN table /\ table[record_id].version = compare_version
    IN  [rowcount |-> IF hit THEN 1 ELSE 0,
         table |-> IF hit
                   THEN [table EXCEPT ![record_id] = [@ EXCEPT ![column] = value]]
                   ELSE table]

UpdateWhereVersionAtLeast(table, record_id, column, value, compare_version) ==
    LET hit == record_id \in DOMAIN table /\ table[record_id].version >= compare_version
    IN  [rowcount |-> IF hit THEN 1 ELSE 0,
         table |-> IF hit
                   THEN [table EXCEPT ![record_id] =
                            [@ EXCEPT ![column] = value, !.version = @ + 1]]
                   ELSE table]

UpdateWhereVersionOnly(table, record_id, column, value, compare_version) ==
    LET hits == {id \in DOMAIN table : table[id].version = compare_version}
    IN  [rowcount |-> Cardinality(hits),
         table |-> [id \in DOMAIN table |->
                       IF id \in hits
                       THEN [table[id] EXCEPT ![column] = value, !.version = @ + 1]
                       ELSE table[id]]]

\* "UPDATE <table> SET <column> = ?, version = version + 1 WHERE id = ? AND version = ?"
UpdateWhereVersion(table, record_id, column, value, compare_version) ==
    LET hit == record_id \in DOMAIN table /\ table[record_id].version = compare_version
    IN  [rowcount |-> IF hit THEN 1 ELSE 0,
         table |-> IF hit
                   THEN [table EXCEPT ![record_id] =
                            [@ EXCEPT ![column] = value, !.version = @ + 1]]
                   ELSE table]

\* compare_version = expected_version if expected_version is not None else current_version
CompareVersion(expected_version, current_version) ==
    IF expected_version # None THEN expected_version ELSE current_version

\* The write half of an update call: the UPDATE, the rowcount test, commit or rollback.
\* Returns the table after the call and what the call returns or raises.
CasWrite(table, record_id, column, value, compare_version) ==
    LET u == UpdateWhereVersion(table, record_id, column, value, compare_version)
    IN  IF u.rowcount = 0
        THEN [table |-> table, kind |-> "conflict", version |-> None]
        ELSE [table |-> u.table, kind |-> "ok", version |-> compare_version + 1]

\* json.dumps of a list of strings.
json_dumps(value) == [json |-> [i \in 1..Len(value.items) |-> value.items[i].v]]

\* The parameters create_tasks binds for one task.
BindRow(task) ==
    [id |-> IdText(task.id), story_id |-> task.story_id, kind |-> task.kind,
     description |-> task.description, assignee_role |-> task.assignee_role,
     estimate |-> ItemGet(task, "estimate", "M"),
     dependencies |-> json_dumps(ItemGet(task, "dependencies", List(<<>>))),
     acceptance |-> json_dumps(ItemGet(task, "acceptance", List(<<>>))),
     status |-> task.status]

BindRows(batch) == [i \in 1..Len(batch) |-> BindRow(batch[i])]

\* INSERT of one row; the row gets the schema's default version.
InsertRow(table, row) ==
    table @@ (row.id :> [story_id |-> row.story_id, kind |-> row.kind,
                         description |-> row.description,
                         assignee_role |-> row.assignee_role,
                         estimate |-> row.estimate,
                         dependencies |-> row.dependencies,
                         acceptance |-> row.acceptance,
                         status |-> row.status,
                         version |-> SchemaDefaultVersion])

\* cursor.executemany(INSERT ...): row after row, stopping at the first primary-key
\* violation with the rows inserted so far still in the open transaction.
RECURSIVE executemany(_, _)
executemany(table, rows) ==
    IF rows = <<>> THEN [error |-> FALSE, table |-> table]
    ELSE IF Head(rows).id \in DOMAIN table THEN [error |-> TRUE, table |-> table]
    ELSE executemany(InsertRow(table, Head(rows)), Tail(rows))

\* Mutant: the rows inserted before the failing one stay.
create_tasks_no_rollback(table, batch) ==
    LET r == executemany(table, BindRows(batch))
    IN  [table |-> r.table, kind |-> IF r.error THEN "integrity" ELSE "ok"]

\* create_tasks: the connection context manager commits on return and rolls the
\* transaction back when executemany raises.
create_tasks(table, batch) ==
    LET r == executemany(table, BindRows(batch))
    IN  IF r.error THEN [table |-> table, kind |-> "integrity"]
        ELSE [table |-> r.table, kind |-> "ok"]

(***************************************************************************)
(* orchestrator/guard.py.  A path or a pattern is a sequence of symbols:   *)
(* "/" the separator, "." the dot, "*" and "?" the wildcards, any other     *)
(* symbol a piece of a file name.                                           *)
(***************************************************************************)
\* The file system the guard resolves against: the working directory /r and,
\* when fs_links holds, the symbolic link /r/l to the directory /o outside it.
Cwd == << <<"r">> >>
LinkAt == << <<"r">>, <<"l">> >>
LinkTarget == << <<"o">> >>

RECURSIVE SplitFrom(_, _, _)
\* str.split("/") of the symbols: the components, empty ones included.
SplitFrom(chars, cur, acc) ==
    IF chars = <<>> THEN Append(acc, cur)
    ELSE IF Head(chars) = "/" THEN SplitFrom(Tail(chars), <<>>, Append(acc, cur))
    ELSE SplitFrom(Tail(chars), Append(cur, Head(chars)), acc)

\* pathlib parsing: empty and "." components are dropped, ".." is kept.
PathParts(chars) ==
    SelectSeq(SplitFrom(chars, <<>>, <<>>), LAMBDA comp : comp # <<>> /\ comp # <<".">>)

IsAbsolute(chars) == chars # <<>> /\ Head(chars) = "/"

\* A position of the file system: absolute flag and components.
PurePath(chars) == [abs |-> IsAbsolute(chars), parts |-> PathParts(chars)]

\* Path.joinpath: an absolute argument replaces the path.
joinpath(base, chars) ==
    IF IsAbsolute(chars) THEN PurePath(chars)
    ELSE [abs |-> base.abs, parts |-> base.parts \o PathParts(chars)]

DropLast(parts) == IF parts = <<>> THEN <<>> ELSE SubSeq(parts, 1, Len(parts) - 1)

RECURSIVE Realpath(_, _, _)
\* os.path.realpath, non strict: component after component, ".." leaves the
\* directory reached so far (the root stays the root), a symbolic link is replaced
\* by its target as soon as it is reached.
Realpath(done, rest, links) ==
    IF rest = <<>> THEN done
    ELSE IF Head(rest) = <<".", ".">> THEN Realpath(DropLast(done), Tail(rest), links)
    ELSE LET next == Append(done, Head(rest))
         IN  IF links /\ next = LinkAt THEN Realpath(LinkTarget, Tail(rest), links)
             ELSE Realpath(next, Tail(rest), links)

\* Path.resolve(): a relative path is taken from the working directory.
resolve(path, links) ==
    Realpath(<<>>, IF path.abs THEN path.parts ELSE Cwd \o path.parts, links)

IsPrefix(p, q) == Len(p) <= Len(q) /\ SubSeq(q, 1, Len(p)) = p

\* PurePath.relative_to: the components after the root, or ValueError.
relative_to(target, root) ==
    IF IsPrefix(root, target)
    THEN [ok |-> TRUE, parts |-> SubSeq(target, Len(root) + 1, Len(target))]
    ELSE [ok |-> FALSE, parts |-> <<>>]

RECURSIVE JoinParts(_)
JoinParts(parts) ==
    IF parts = <<>> THEN <<>>
    ELSE IF Len(parts) = 1 THEN Head(parts)
    ELSE Head(parts) \o <<"/">> \o JoinParts(Tail(parts))

\* PurePath.as_posix(): the empty relative path prints as ".".
as_posix(parts) == IF parts = <<>> THEN <<".">> ELSE JoinParts(parts)

RECURSIVE fnmatch(_, _)
\* fnmatch.fnmatch on POSIX: "*" matches any run of symbols ("/" included), "?"
\* any one symbol, everything else itself; the whole name must match.
fnmatch(name, pat) ==
    IF pat = <<>> THEN name = <<>>
    ELSE IF Head(pat) = "*"
         THEN fnmatch(name, Tail(pat)) \/ (name # <<>> /\ fnmatch(Tail(name), pat))
    ELSE /\ name # <<>>
         /\ (Head(pat) = "?" \/ Head(pat) = Head(name))
         /\ fnmatch(Tail(name), Tail(pat))

GuardError(reason) == [ok |-> FALSE, reason |-> reason, path |-> <<>>]

\* Mutant: the target is made absolute without resolving it.
ensure_guarded_write_unresolved(guard_patterns, root, write_path, links) ==
    LET abs_root == resolve(PurePath(root), links)
        joined == joinpath([abs |-> TRUE, parts |-> abs_root], write_path)
        abs_target == joined.parts
        rel_path == relative_to(abs_target, abs_root)
    IN  IF ~rel_path.ok THEN GuardError("outside of project root")
        ELSE IF ~\E i \in 1..Len(guard_patterns) :
                    fnmatch(as_posix(rel_path.parts), guard_patterns[i])
             THEN GuardError("blocked by guard paths")
        ELSE [ok |-> TRUE, reason |-> "allowed", path |-> abs_target]

ensure_guarded_write(guard_patterns, root, write_path, links) ==
    LET abs_root == resolve(PurePath(root), links)
        abs_target == resolve(joinpath([abs |-> TRUE, parts |-> abs_root], write_path), links)
        rel_path == relative_to(abs_target, abs_root)
    IN  IF ~rel_path.ok THEN GuardError("outside of project root")
        ELSE IF ~\E i \in 1..Len(guard_patterns) :
                    fnmatch(as_posix(rel_path.parts), guard_patterns[i])
             THEN GuardError("blocked by guard paths")
        ELSE [ok |-> TRUE, reason |-> "allowed", path |-> abs_target]

(***************************************************************************)
(* The workers (orchestrator/agents).  A run of a worker is its result and *)
(* the file writes it made; guarded says whether ensure_guarded_write      *)
(* passed for that path right before the write.                            *)
(***************************************************************************)
NoFeedback == "None"

RoomDocFile(story_id) == <<"agent_framework", "/", "docs", "/", "US-" \o story_id \o ".md">>
FETarget(story_id) ==
    <<"workspace", "/", "src", "/", "components", "/", story_id \o "_dashboard.tsx">>
QATarget(story_id) == <<"workspace", "/", "tests", "/", "test_" \o story_id \o ".py">>
MLTarget(task_id) ==
    <<"workspace", "/", "artifacts", "/", task_id \o "_retrieval_report.json">>

Write(agent, path, guarded) == [agent |-> agent, path |-> path, guarded |-> guarded]

\* Agent._log: the database log entry, then the append to the story's room document.
log_writes(role, ctb) == {Write(role, RoomDocFile(ctb.story_id), FALSE)}

AgentResult(status, feedback, file_writes) ==
    [status |-> status, feedback |-> feedback, writes |-> file_writes]

\* An exception that leaves run(): the model call and the log insert are outside
\* every try block of the workers.
Raised(role, ctb) == AgentResult("raised", NoFeedback, log_writes(role, ctb))

\* FEAgent.run: guard, write, then the quality scripts (each may fail or time out).
FERuns(ctb, links) ==
    LET guarded_path == ensure_guarded_write(ctb.guard_paths, <<".">>, FETarget(ctb.story_id), links)
    IN  {Raised("FE", ctb)} \cup
        IF ~guarded_path.ok
        THEN {AgentResult("Failed", NoFeedback, log_writes("FE", ctb))}
        ELSE {AgentResult(s, NoFeedback,
                          log_writes("FE", ctb) \cup {Write("FE", FETarget(ctb.story_id), TRUE)})
                : s \in {"Coding Complete", "Failed"}}

\* QAAgent.run: guard, write of the test file, then run_tests.sh.
QARuns(ctb, links) ==
    LET guarded_path == ensure_guarded_write(ctb.guard_paths, <<".">>, QATarget(ctb.story_id), links)
        written == log_writes("QA", ctb) \cup {Write("QA", QATarget(ctb.story_id), TRUE)}
    IN  {Raised("QA", ctb)} \cup
        IF ~guarded_path.ok
        THEN {AgentResult("Failed", NoFeedback, log_writes("QA", ctb))}
        ELSE {AgentResult("Done", NoFeedback, written),
              AgentResult("QA Failed", "Tests failed: " \o ctb.task_id, written),
              AgentResult("Failed", NoFeedback, written)}

\* MLAgent.run: a no-op "Done" unless the objective names the retriever.
MLRuns(ctb, links) ==
    LET guarded_path == ensure_guarded_write(ctb.guard_paths, <<".">>, MLTarget(ctb.task_id), links)
    IN  {Raised("ML", ctb)} \cup
        IF ~ctb.objective.retriever
        THEN {AgentResult("Done", NoFeedback, log_writes("ML", ctb))}
        ELSE IF ~guarded_path.ok
        THEN {AgentResult("Failed", NoFeedback, log_writes("ML", ctb))}
        ELSE {AgentResult("Done", NoFeedback,
                          log_writes("ML", ctb) \cup {Write("ML", MLTarget(ctb.task_id), TRUE)})}

\* DevOpsAgent and BEAgent: a worker returns a status or raises; which files these
\* two write is not modelled.
OpaqueRuns(ctb) ==
    {AgentResult(s, NoFeedback, {}) : s \in {"Coding Complete", "Failed", "raised"}}

AgentRoles == {"PM", "DevOps", "BE", "ML", "QA", "FE"}

\* agent_factory: the worker class of a role, or ValueError.
agent_factory(role) == IF role \in AgentRoles THEN role ELSE "ValueError"

AgentRuns(agent, ctb, links) ==
    IF agent = "FE" THEN FERuns(ctb, links)
    ELSE IF agent = "QA" THEN QARuns(ctb, links)
    ELSE IF agent = "ML" THEN MLRuns(ctb, links)
    ELSE OpaqueRuns(ctb)

(***************************************************************************)
(* orchestrator/graph.py.  The nodes and the router are the steps of the   *)
(* run; a node's returned dict and the in-place changes the nodes and the  *)
(* router make to the state are the run state of the next step.            *)
(***************************************************************************)
MAX_RETRIES == 2

StoryId == "S1"

\* ROLE_GUARDS as loaded from roles.yaml: missing file, or one pattern per role.
NoRoleGuards == [r \in {} |-> <<>>]
StdRoleGuards ==
    [r \in {"FE", "QA", "ML"} |->
        IF r = "FE" THEN << <<"workspace", "/", "src", "/", "*">> >>
        ELSE IF r = "QA" THEN << <<"workspace", "/", "tests", "/", "*">> >>
        ELSE << <<"workspace", "/", "artifacts", "/", "*">> >>]

json_loads(text) == text.json

\* _parse_row: the JSON columns become lists again.
parse_row(id, row) ==
    [id |-> id] @@ [row EXCEPT !.dependencies = json_loads(@), !.acceptance = json_loads(@)]

AllTaskIdsSorted == <<"S1.T01", "S1.T02", "S1.T03">>

\* get_tasks_for_story: SELECT * FROM tasks WHERE story_id = ? ORDER BY id.
get_tasks_for_story(table, story_id) ==
    LET ids == SelectSeq(AllTaskIdsSorted,
                         LAMBDA t : t \in DOMAIN table /\ table[t].story_id = story_id)
    IN  [i \in 1..Len(ids) |-> parse_row(ids[i], table[ids[i]])]

\* update_task_status(task_id, status, expected_version) with the version supplied:
\* the SELECT only tells whether the record exists, the UPDATE decides.
update_task_status(table, task_id, status, expected_version) ==
    LET current_version == fetch_current_version(table, task_id)
    IN  IF current_version = NotFound
        THEN [table |-> table, kind |-> "notfound", version |-> None]
        ELSE CasWrite(table, task_id, "status", status,
                      CompareVersion(expected_version, current_version))

NoCtb == [task_id |-> "none", role |-> "none", story_id |-> "none",
          objective |-> [description |-> "none", feedback |-> NoFeedback, retriever |-> FALSE],
          guard_paths |-> <<>>, acceptance |-> <<>>]

\* Mutant: the review is given the guard patterns of the task's assignee role.
build_ctb_assignee_guards(task, story_id, role_override, guards) ==
    LET role == IF role_override # "None" THEN role_override ELSE task.assignee_role
    IN  [task_id |-> IF role_override # "None" THEN task.id \o "." \o role_override ELSE task.id,
         role |-> role, story_id |-> story_id,
         objective |-> [description |-> task.description, feedback |-> NoFeedback,
                        retriever |-> FALSE],
         guard_paths |-> Get(guards, task.assignee_role, <<>>),
         acceptance |-> task.acceptance]

\* _build_ctb(task, story, role_override); None is the absent override.
build_ctb(task, story_id, role_override, guards) ==
    LET role == IF role_override # "None" THEN role_override ELSE task.assignee_role
    IN  [task_id |-> IF role_override # "None" THEN task.id \o "." \o role_override ELSE task.id,
         role |-> role, story_id |-> story_id,
         objective |-> [description |-> task.description, feedback |-> NoFeedback,
                        retriever |-> FALSE],
         guard_paths |-> Get(guards, role, <<>>),
         acceptance |-> task.acceptance]

InitialState ==
    [tasks |-> <<>>, current_task_index |-> 0, feedback_for_dev |-> NoFeedback,
     retries |-> <<>>, next_step |-> "PLAN", error |-> FALSE]

\* Mutant: the node returns no error.
ErrorReturnDropped(st) == st

\* The dict a node returns on failure.
ErrorReturn(st) == [st EXCEPT !.error = TRUE, !.next_step = "FINISH"]

\* Mutant: the exhaustion test lets two more retries through.
RetriesExhaustedLate(retries) == retries >= MAX_RETRIES + 2

\* Mutant: the budget is exhausted when the counter exceeds MAX_RETRIES.
RetriesExhaustedAbove(retries) == retries > MAX_RETRIES

\* router: "if retries >= MAX_RETRIES".
RetriesExhausted(retries) == retries >= MAX_RETRIES

\* Mutant: two tasks are stepped over at once.
NextTaskIndexSkip(task_index) == task_index + 2

\* Mutant: the run goes back to the first task after the second.
NextTaskIndexBack(task_index) == IF task_index = 1 THEN 0 ELSE task_index + 1

\* Mutant: the third task is worked before the second.
NextTaskIndexOutOfOrder(task_index) ==
    IF task_index = 0 THEN 2 ELSE IF task_index = 2 THEN 1 ELSE 3

\* Mutant: the index goes back to the first task after the second.
NextTaskIndexWrap(task_index) == IF task_index = 0 THEN 1 ELSE 0

\* "current_task_index": task_index + 1 (qa_node and router).
NextTaskIndex(task_index) == task_index + 1

SetItem(dict, key, value) ==
    [k \in DOMAIN dict \cup {key} |-> IF k = key THEN value ELSE dict[k]]

Pop(dict, key) == [k \in DOMAIN dict \ {key} |-> dict[k]]

(***************************************************************************)
(* Store clients: concurrent callers of the update functions.  A call is   *)
(* two statements on its own connection: the SELECT of                      *)
(* _fetch_current_version (autocommit) and the UPDATE with its commit.     *)
(***************************************************************************)
UpdateFns == {"update_task_status", "update_story_status", "update_story_room_doc"}

FnTable(fn) == IF fn = "update_task_status" THEN "tasks" ELSE "user_stories"
FnColumn(fn) == IF fn = "update_story_room_doc" THEN "room_doc_path" ELSE "status"
FnIds(fn) == IF fn = "update_task_status" THEN TaskIds ELSE StoryIds
\* Each client writes a value of its own, so that the writer of a stored value is known.
FnValue(fn, c) ==
    IF fn = "update_story_room_doc" THEN RoomDocPath(c)
    ELSE IF c = "c1" THEN "In Progress" ELSE "Done"

Table(name) == IF name = "tasks" THEN tasks ELSE user_stories

IdleCall ==
    [pc |-> "idle", fn |-> "none", id |-> "none", value |-> "none",
     expected |-> None, compare |-> None, kind |-> "none", returned |-> None,
     before |-> <<>>, after |-> <<>>, batch |-> <<>>]

Records == ({"tasks"} \X TaskIds) \cup ({"user_stories"} \X StoryIds)

NoGuardCall == [pc |-> "idle", patterns |-> <<>>, root |-> <<>>, path |-> <<>>,
                result |-> GuardError("none")]

GuardIdle == fs_links = FALSE /\ guard_call = NoGuardCall

StoreTables ==
    /\ user_stories = [s \in StoryIds |->
                          [status |-> "To Do", room_doc_path |-> NullPath,
                           version |-> SchemaDefaultVersion]]
    /\ tasks = InsertRow(<<>>, BindRow(PlanItem("S1.T01")))

ClientsIdle ==
    /\ calls = [c \in Clients |-> IdleCall]
    /\ accepted = [r \in Records |-> 0]
    /\ ncalls = 0

(***************************************************************************)
(* llm_client.py and the loader of models.yaml in graph.py.  A temperature *)
(* is counted in tenths.  A raw entry is what yaml.safe_load gives for one *)
(* role, task or story: the keys it sets, and whether float() and int()    *)
(* accept its numbers.                                                     *)
(***************************************************************************)
NoProvider == "None"

NoId == "None"

\* Python's truth value of an optional string.
Truthy(s) == s # NoId /\ s # ""

LLMConfig(name, temperature, max_tokens, provider) ==
    [name |-> name, temperature |-> temperature, max_tokens |-> max_tokens,
     provider |-> provider]

\* Python's mapping restricted to the keys the model draws.
EmptyMap == [k \in {} |-> LLMConfig("", 0, 0, NoProvider)]

RawCfg(keys, name, temperature, max_tokens, provider, valid) ==
    [keys |-> keys, name |-> name, temperature |-> temperature,
     max_tokens |-> max_tokens, provider |-> provider, valid |-> valid]

RawGet(cfg, key, default) == IF key \in cfg.keys THEN cfg[key] ELSE default

config_to_llm_config(raw_cfg, default_name, default_provider) ==
    [raised |-> ~raw_cfg.valid,
     config |-> LLMConfig(RawGet(raw_cfg, "name", default_name),
                          RawGet(raw_cfg, "temperature", 2),
                          RawGet(raw_cfg, "max_tokens", 2000),
                          RawGet(raw_cfg, "provider", default_provider))]

\* The in-code role table of build_llm_client.
InCodeDefaults(default_provider) ==
    [role \in {"PM", "DevOps", "BE", "ML", "QA", "FE"} |->
        LLMConfig(IF role \in {"DevOps", "QA", "FE"} THEN "gpt-4o-mini" ELSE "gpt-4o",
                  IF role \in {"ML", "QA"} THEN 1 ELSE IF role = "FE" THEN 3 ELSE 2,
                  2000, default_provider)]

LLMClient(default_provider, role_to_config, tasks_overrides, stories_overrides) ==
    [default_provider |-> default_provider, role_to_config |-> role_to_config,
     overrides |-> [tasks |-> tasks_overrides, stories |-> stories_overrides]]

\* models.yaml as read: missing, not parseable, or its three maps of raw entries.
build_llm_client(yaml) ==
    LET read == yaml.exists /\ yaml.parses
        default_provider ==
            IF read /\ yaml.default_provider # NoProvider
            THEN yaml.default_provider ELSE "openai"
        convert(raw_map) ==
            [k \in DOMAIN raw_map |->
                config_to_llm_config(raw_map[k], "gpt-4o", default_provider)]
        raised(raw_map) == \E k \in DOMAIN raw_map : convert(raw_map)[k].raised
        loaded == /\ read
                  /\ ~raised(yaml.models) /\ ~raised(yaml.tasks) /\ ~raised(yaml.stories)
        configs(raw_map) ==
            IF loaded THEN [k \in DOMAIN raw_map |-> convert(raw_map)[k].config]
            ELSE EmptyMap
        role_to_config == configs(yaml.models)
    IN  LLMClient(default_provider,
                  IF DOMAIN role_to_config = {}
                  THEN InCodeDefaults(default_provider) ELSE role_to_config,
                  configs(yaml.tasks), configs(yaml.stories))

with_defaults(client, config, fallback_role) ==
    LET role_provider ==
            IF Truthy(fallback_role) /\ fallback_role \in DOMAIN client.role_to_config
            THEN client.role_to_config[fallback_role].provider
            ELSE NoProvider
        provider == IF Truthy(config.provider) THEN config.provider
                    ELSE IF Truthy(role_provider) THEN role_provider
                    ELSE client.default_provider
    IN  [config EXCEPT !.provider = provider]

\* Variant of pick_config: the story tier is consulted before the task tier.
pick_config_story_first(client, role, task_id, story_id) ==
    IF Truthy(story_id) /\ story_id \in DOMAIN client.overrides.stories
    THEN with_defaults(client, client.overrides.stories[story_id], role)
    ELSE IF Truthy(task_id) /\ task_id \in DOMAIN client.overrides.tasks
    THEN with_defaults(client, client.overrides.tasks[task_id], role)
    ELSE IF role \in DOMAIN client.role_to_config
    THEN with_defaults(client, client.role_to_config[role], role)
    ELSE LLMConfig("gpt-4o", 2, 2000, client.default_provider)

pick_config(client, role, task_id, story_id) ==
    IF Truthy(task_id) /\ task_id \in DOMAIN client.overrides.tasks
    THEN with_defaults(client, client.overrides.tasks[task_id], role)
    ELSE IF Truthy(story_id) /\ story_id \in DOMAIN client.overrides.stories
    THEN with_defaults(client, client.overrides.stories[story_id], role)
    ELSE IF role \in DOMAIN client.role_to_config
    THEN with_defaults(client, client.role_to_config[role], role)
    ELSE LLMConfig("gpt-4o", 2, 2000, client.default_provider)

NoYaml ==
    [exists |-> FALSE, parses |-> FALSE, default_provider |-> NoProvider,
     models |-> [k \in {} |-> RawCfg({}, "", 0, 0, NoProvider, TRUE)],
     tasks |-> [k \in {} |-> RawCfg({}, "", 0, 0, NoProvider, TRUE)],
     stories |-> [k \in {} |-> RawCfg({}, "", 0, 0, NoProvider, TRUE)]]

NoClient == LLMClient(NoProvider, EmptyMap, EmptyMap, EmptyMap)

NoConfig == LLMConfig("", 0, 0, NoProvider)

\* No client under check.
ConfigIdle ==
    llm_call = [pc |-> "none", source |-> "none", yaml |-> NoYaml, client |-> NoClient,
                role |-> NoId, task_id |-> NoId, story_id |-> NoId, result |-> NoConfig]

NoPlan == [chosen |-> FALSE, response |-> [json |-> FALSE, list |-> FALSE, items |-> <<>>],
           before |-> {}]

AllTaskIds == {AllTaskIdsSorted[i] : i \in 1..Len(AllTaskIdsSorted)}

NoAttempts == [t \in AllTaskIds |-> 0]

\* No run of the state machine.
RunIdle ==
    /\ state = InitialState /\ pc = "none" /\ worker_ctb = NoCtb /\ compare = None
    /\ plan = NoPlan /\ roles_yaml = FALSE /\ room_doc = FALSE /\ attachments = FALSE
    /\ dev_attempts = NoAttempts /\ qa_attempts = NoAttempts
    /\ exhausted = {} /\ writes = {} /\ nexternal = 0 /\ log = <<>>

StoreInit == StoreTables /\ ClientsIdle /\ GuardIdle /\ RunIdle /\ ConfigIdle

\* First statement of update_*: current_version = _fetch_current_version(...).
UpdateRead(c, fn, id, value, expected) ==
    /\ calls[c].pc # "write"
    /\ ncalls < MaxCalls
    /\ ncalls' = ncalls + 1
    /\ LET current_version == fetch_current_version(Table(FnTable(fn)), id)
       IN  /\ calls' = [calls EXCEPT ![c] =
                 IF current_version = NotFound
                 THEN [IdleCall EXCEPT !.pc = "done", !.fn = fn, !.id = id,
                          !.value = value, !.expected = expected, !.kind = "notfound"]
                 ELSE [IdleCall EXCEPT !.pc = "write", !.fn = fn, !.id = id,
                          !.value = value, !.expected = expected,
                          !.compare = CompareVersion(expected, current_version)]]
    /\ UNCHANGED <<user_stories, tasks, accepted, guardVars, runVars, configVars>>

\* Second statement of update_*: the UPDATE, then raise or commit and return.
UpdateWrite(c) ==
    /\ calls[c].pc = "write"
    /\ LET call == calls[c]
           tname == FnTable(call.fn)
           w == CasWrite(Table(tname), call.id, FnColumn(call.fn), call.value, call.compare)
       IN  /\ IF tname = "tasks"
              THEN tasks' = w.table /\ UNCHANGED user_stories
              ELSE user_stories' = w.table /\ UNCHANGED tasks
           /\ calls' = [calls EXCEPT ![c] =
                 [call EXCEPT !.pc = "done", !.kind = w.kind, !.returned = w.version,
                              !.before = Table(tname), !.after = w.table]]
           /\ accepted' = IF w.kind = "ok"
                          THEN [accepted EXCEPT ![<<tname, call.id>>] = @ + 1]
                          ELSE accepted
    /\ UNCHANGED <<ncalls, guardVars, runVars, configVars>>

Batches == UNION {[1..n -> TaskIds] : n \in 1..MaxBatch}

BatchRows(ids) == [i \in 1..Len(ids) |-> PlanItem(ids[i])]

\* create_tasks(batch) by a client: one transaction.
CreateTasks(c, ids) ==
    /\ calls[c].pc # "write"
    /\ ncalls < MaxCalls
    /\ ncalls' = ncalls + 1
    /\ LET r == create_tasks(tasks, BatchRows(ids))
       IN  /\ tasks' = r.table
           /\ calls' = [calls EXCEPT ![c] =
                 [IdleCall EXCEPT !.pc = "done", !.fn = "create_tasks",
                                  !.kind = r.kind, !.batch = ids,
                                  !.before = tasks, !.after = r.table]]
    /\ UNCHANGED <<user_stories, accepted, guardVars, runVars, configVars>>

StoreNext ==
    \/ \E c \in Clients, fn \in UpdateFns :
         \E id \in FnIds(fn), expected \in {None} \cup (1..MaxVersion) :
            UpdateRead(c, fn, id, FnValue(fn, c), expected)
    \/ \E c \in Clients : UpdateWrite(c)
    \/ \E c \in Clients, ids \in Batches : CreateTasks(c, ids)

SpecStore == StoreInit /\ [][StoreNext]_vars

(***************************************************************************)
(* The guard as a function of its arguments and of the file system.        *)
(***************************************************************************)
PathSymbols == {"a", "l", "r", ".", "/"}
WritePaths == UNION {[1..n -> PathSymbols] : n \in 0..MaxPathLen}
GuardRoots == {<<".">>, <<"/", "r">>}
GuardPatternLists ==
    {<<>>, <<<<"*">>>>, <<<<"a">>>>, <<<<"a", "/", "*">>>>, <<<<"?">>>>,
     <<<<"l", "/", "*">>, <<"a">>>>}

GuardInit == StoreTables /\ ClientsIdle /\ GuardIdle /\ RunIdle /\ ConfigIdle

GuardCall(links, patterns, root, path) ==
    /\ guard_call.pc = "idle"
    /\ fs_links' = links
    /\ guard_call' = [NoGuardCall EXCEPT !.pc = "called", !.patterns = patterns,
                                         !.root = root, !.path = path]
    /\ UNCHANGED <<storeVars, runVars, configVars>>

GuardReturn ==
    /\ guard_call.pc = "called"
    /\ guard_call' = [guard_call EXCEPT !.pc = "returned",
            !.result = ensure_guarded_write(guard_call.patterns, guard_call.root,
                                            guard_call.path, fs_links)]
    /\ UNCHANGED <<storeVars, fs_links, runVars, configVars>>

GuardNext ==
    \/ /\ guard_call.pc = "idle"
       /\ \E links \in BOOLEAN, patterns \in GuardPatternLists,
             root \in GuardRoots, path \in WritePaths :
               GuardCall(links, patterns, root, path)
    \/ GuardReturn

SpecGuard == GuardInit /\ [][GuardNext]_vars

(***************************************************************************)
(* A run of the state machine (run_story_workflow).  The plan the PM gets  *)
(* from the model is an input of the run: the plan of pm.py, or that plan  *)
(* with one item changed.  The router's assignments to the state are taken *)
(* as the code writes them: they are part of the state the next node sees. *)
(***************************************************************************)
PlanChanges ==
    {"none", "not a dict", "no id", "no description", "no assignee_role", "no kind",
     "no estimate", "id not a string", "id of another story", "id repeated",
     "dependencies not a list", "dependency not a string", "no dependencies",
     "acceptance empty", "acceptance not a list", "criterion not a string",
     "no acceptance", "estimate XL", "unknown role"}

OtherName(name) == IF name = "T01" THEN "T02" ELSE IF name = "T02" THEN "T03" ELSE "T01"

Changed(item, change) ==
    CASE change = "not a dict" -> [item EXCEPT !.dict = FALSE, !.keys = {}]
      [] change = "no id" -> [item EXCEPT !.keys = @ \ {"id"}]
      [] change = "no description" -> [item EXCEPT !.keys = @ \ {"description"}]
      [] change = "no assignee_role" -> [item EXCEPT !.keys = @ \ {"assignee_role"}]
      [] change = "no kind" -> [item EXCEPT !.keys = @ \ {"kind"}]
      [] change = "no estimate" -> [item EXCEPT !.keys = @ \ {"estimate"}]
      [] change = "id not a string" -> [item EXCEPT !.id.str = FALSE]
      [] change = "id of another story" -> [item EXCEPT !.id.story = "S2"]
      [] change = "id repeated" -> [item EXCEPT !.id.name = OtherName(@)]
      [] change = "dependencies not a list" -> [item EXCEPT !.dependencies = NotList]
      [] change = "dependency not a string" -> [item EXCEPT !.dependencies = List(<<NotStr>>)]
      [] change = "no dependencies" -> [item EXCEPT !.keys = @ \ {"dependencies"}]
      [] change = "acceptance empty" -> [item EXCEPT !.acceptance = List(<<>>)]
      [] change = "acceptance not a list" -> [item EXCEPT !.acceptance = NotList]
      [] change = "criterion not a string" ->
            [item EXCEPT !.acceptance = List(<<Str("criterion"), NotStr>>)]
      [] change = "no acceptance" -> [item EXCEPT !.keys = @ \ {"acceptance"}]
      [] change = "estimate XL" -> [item EXCEPT !.estimate = "XL"]
      [] change = "unknown role" -> [item EXCEPT !.assignee_role = "Ops"]
      [] OTHER -> item

PlanResponses ==
    {[llm_plan_response(StoryId) EXCEPT !.items[pos] = Changed(@, change)] :
        change \in PlanChanges, pos \in 1..3}
    \cup {[json |-> FALSE, list |-> FALSE, items |-> <<>>],
          [json |-> TRUE, list |-> FALSE, items |-> <<>>],
          [json |-> TRUE, list |-> TRUE, items |-> <<>>]}

ROLE_GUARDS == IF roles_yaml THEN StdRoleGuards ELSE NoRoleGuards

\* The task records of an earlier run of the story.
EarlierTasks == create_tasks(<<>>, validate_plan(llm_plan_response(StoryId), StoryId).tasks).table

Init ==
    /\ \E path \in {NullPath, RoomDocPath(StoryId)} :
          user_stories = [s \in StoryIds |->
                             [status |-> "To Do", room_doc_path |-> path,
                              version |-> SchemaDefaultVersion]]
    /\ \E seeded \in BOOLEAN : tasks = IF seeded THEN EarlierTasks ELSE <<>>
    /\ ClientsIdle /\ GuardIdle
    /\ state = InitialState /\ pc = "plan_node" /\ worker_ctb = NoCtb /\ compare = None
    /\ plan = NoPlan
    /\ roles_yaml \in BOOLEAN /\ attachments \in BOOLEAN
    /\ room_doc \in BOOLEAN
    /\ user_stories[StoryId].room_doc_path # NullPath => room_doc
    /\ dev_attempts = NoAttempts /\ qa_attempts = NoAttempts
    /\ exhausted = {} /\ writes = {} /\ nexternal = 0 /\ log = <<>>
    /\ ConfigIdle

frame == <<calls, accepted, ncalls, guardVars, configVars>>

\* The history of the run: a worker call, its return, an update of the store.
Event(ev, step, task, status, kind) ==
    [ev |-> ev, step |-> step, task |-> task, index |-> state.current_task_index,
     status |-> status, kind |-> kind]

WorkerCall(step, task) == Event("call", step, task, "none", "none")

WorkerReturn(step, task, status) == Event("return", step, task, status, "none")

StoreUpdate(step, id, status, kind) == Event("update", step, id, status, kind)

\* Mutant: a missing file goes unnoticed.
open_attachments_unchecked(present) == "ok"

\* The reads of AGENTS.MD and BACKLOG.md when a context is built.
open_attachments(present) == IF present THEN "ok" ELSE "FileNotFoundError"

\* plan_node up to update_story_room_doc's SELECT of the version.
PlanNode ==
    /\ pc = "plan_node"
    /\ room_doc' = TRUE
    /\ IF ~room_doc
       THEN /\ compare' = fetch_current_version(user_stories, StoryId)
            /\ pc' = "plan_room_doc_update"
       ELSE /\ pc' = "plan_attachments"
            /\ UNCHANGED compare
    /\ UNCHANGED <<user_stories, tasks, frame, state, worker_ctb, plan, roles_yaml,
                   attachments, dev_attempts, qa_attempts, exhausted, writes, nexternal,
                   log>>

\* update_story_room_doc's UPDATE; RuntimeError makes plan_node return the error.
PlanRoomDocUpdate ==
    /\ pc = "plan_room_doc_update"
    /\ LET w == CasWrite(user_stories, StoryId, "room_doc_path", RoomDocPath(StoryId), compare)
       IN  /\ user_stories' = w.table
           /\ IF w.kind = "conflict"
              THEN state' = ErrorReturn(state) /\ pc' = "router"
              ELSE state' = state /\ pc' = "plan_attachments"
           /\ log' = Append(log, StoreUpdate("PLAN", StoryId, "room_doc_path", w.kind))
    /\ UNCHANGED <<tasks, frame, worker_ctb, compare, plan, roles_yaml, room_doc,
                   attachments, dev_attempts, qa_attempts, exhausted, writes, nexternal>>

PlanCtb ==
    [NoCtb EXCEPT !.task_id = StoryId \o ".PLAN", !.role = "PM", !.story_id = StoryId,
                  !.objective.description = "story objective",
                  !.acceptance = <<"Tasks are created in DB">>]

\* plan_node: the attachments, the PM's context, and PMAgent.run up to
\* update_story_status's SELECT of the version.
PlanInvokePM ==
    /\ pc = "plan_attachments"
    /\ IF open_attachments(attachments) = "FileNotFoundError"
       THEN /\ state' = ErrorReturn(state) /\ pc' = "router"
            /\ UNCHANGED <<worker_ctb, compare, writes, log>>
       ELSE /\ worker_ctb' = PlanCtb
            /\ log' = Append(log, WorkerCall("PLAN", PlanCtb.task_id))
            /\ writes' = writes \cup log_writes("PM", PlanCtb)
            /\ compare' = fetch_current_version(user_stories, StoryId)
            /\ pc' = "pm_update_story"
            /\ UNCHANGED state
    /\ UNCHANGED <<user_stories, tasks, frame, plan, roles_yaml, room_doc,
                   attachments, dev_attempts, qa_attempts, exhausted, nexternal>>

\* PMAgent.run: update_story_status's UPDATE; its RuntimeError is caught nowhere.
PMUpdateStory ==
    /\ pc = "pm_update_story"
    /\ LET w == CasWrite(user_stories, StoryId, "status", "In Progress", compare)
       IN  /\ user_stories' = w.table
           /\ pc' = IF w.kind = "conflict" THEN "CRASH" ELSE "pm_plan"
           /\ log' = log \o <<StoreUpdate("PLAN", StoryId, "In Progress", w.kind)>>
                         \o IF w.kind = "conflict"
                            THEN <<WorkerReturn("PLAN", worker_ctb.task_id, "raised")>>
                            ELSE <<>>
    /\ UNCHANGED <<tasks, frame, state, worker_ctb, compare, plan, roles_yaml, room_doc,
                   attachments, dev_attempts, qa_attempts, exhausted, writes, nexternal>>

\* What plan_node returns after a PM run that did not fail.
PlanReturn(st, table) ==
    LET story_tasks == get_tasks_for_story(table, StoryId)
    IN  IF story_tasks = <<>> THEN ErrorReturn(st)
        ELSE [st EXCEPT !.tasks = story_tasks, !.current_task_index = 0,
                        !.next_step = "DEV", !.retries = <<>>]

\* PMAgent.run from the plan on, and the rest of plan_node.  sqlite3.IntegrityError
\* of create_tasks is neither ValueError nor JSONDecodeError and is caught nowhere.
PMPlan(response) ==
    /\ pc = "pm_plan"
    /\ plan' = [chosen |-> TRUE, response |-> response, before |-> DOMAIN tasks]
    /\ LET validated == validate_plan(response, StoryId)
           created == create_tasks(tasks, validated.tasks)
           returned(status) == Append(log, WorkerReturn("PLAN", worker_ctb.task_id, status))
       IN  IF ~validated.ok
           THEN /\ state' = ErrorReturn(state) /\ pc' = "router"
                /\ log' = returned("Failed")
                /\ UNCHANGED <<tasks, writes>>
           ELSE IF created.kind = "integrity"
           THEN /\ pc' = "CRASH"
                /\ log' = returned("raised")
                /\ UNCHANGED <<tasks, state, writes>>
           ELSE /\ tasks' = created.table
                /\ log' = returned("Done")
                /\ writes' = writes \cup {Write("PM", RoomDocFile(StoryId), FALSE)}
                /\ state' = PlanReturn(state, created.table)
                /\ pc' = "router"
    /\ UNCHANGED <<user_stories, frame, worker_ctb, compare, roles_yaml, room_doc,
                   attachments, dev_attempts, qa_attempts, exhausted, nexternal>>

CurrentTask == state.tasks[state.current_task_index + 1]

\* Mutant: the version the update returns is not kept.
SetVersionStale(st, version) == st

\* task['version'] = update_task_status(...): the snapshot keeps the new version.
SetVersion(st, version) == [st EXCEPT !.tasks[st.current_task_index + 1].version = version]

\* Mutant: the retry is given the plain task description.
objective_without_feedback(ctb, feedback_for_dev) == ctb

\* dev_node: the QA feedback, when there is one, is appended to the objective.
objective_with_feedback(ctb, feedback_for_dev) ==
    IF feedback_for_dev # NoFeedback
    THEN [ctb EXCEPT !.objective.feedback = feedback_for_dev]
    ELSE ctb

\* dev_node up to the worker call.  A NULL room_doc_path makes _build_ctb call
\* os.path.exists(None), whose TypeError is caught nowhere, as is the ValueError
\* of agent_factory.
DevNode ==
    /\ pc = "dev_node"
    /\ LET task == CurrentTask
           story == user_stories[StoryId]
           built == build_ctb(task, StoryId, "None", ROLE_GUARDS)
           with_feedback == objective_with_feedback(built, state.feedback_for_dev)
           u == update_task_status(tasks, task.id, "In Progress", task.version)
           updated == Append(log, StoreUpdate("DEV", task.id, "In Progress", u.kind))
       IN  IF open_attachments(attachments) = "FileNotFoundError"
           THEN /\ state' = ErrorReturn(state) /\ pc' = "router"
                /\ UNCHANGED <<tasks, worker_ctb, dev_attempts, log>>
           ELSE IF \/ story.room_doc_path = NullPath
                   \/ agent_factory(task.assignee_role) = "ValueError"
                   \/ u.kind = "notfound"
           THEN /\ pc' = "CRASH"
                /\ UNCHANGED <<tasks, state, worker_ctb, dev_attempts, log>>
           ELSE IF u.kind = "conflict"
           THEN /\ state' = ErrorReturn(state) /\ pc' = "router"
                /\ log' = updated
                /\ UNCHANGED <<tasks, worker_ctb, dev_attempts>>
           ELSE /\ tasks' = u.table
                /\ log' = Append(updated, WorkerCall("DEV", task.id))
                /\ state' = SetVersion(state, u.version)
                /\ worker_ctb' = with_feedback
                /\ dev_attempts' = [dev_attempts EXCEPT ![task.id] = @ + 1]
                /\ pc' = "dev_worker"
    /\ UNCHANGED <<user_stories, frame, compare, plan, roles_yaml, room_doc, attachments,
                   qa_attempts, exhausted, writes, nexternal>>

\* dev_node from the worker's return on; an exception of the worker is caught nowhere.
DevWorkerReturn(result) ==
    /\ pc = "dev_worker"
    /\ writes' = writes \cup result.writes
    /\ LET task == CurrentTask
           final_status == IF result.status # "Failed" THEN "Coding Complete" ELSE "Failed"
           u == update_task_status(tasks, task.id, final_status, task.version)
           \* the history keeps what dev_node reads from the result
           returned == Append(log, WorkerReturn("DEV", task.id,
                                  IF result.status = "raised" THEN "raised" ELSE final_status))
           updated == Append(returned, StoreUpdate("DEV", task.id, final_status, u.kind))
       IN  IF result.status = "raised" \/ u.kind = "notfound"
           THEN pc' = "CRASH" /\ log' = returned /\ UNCHANGED <<tasks, state>>
           ELSE IF u.kind = "conflict"
           THEN /\ state' = ErrorReturn(state) /\ pc' = "router"
                /\ log' = updated /\ UNCHANGED tasks
           ELSE /\ tasks' = u.table
                /\ pc' = "router"
                /\ log' = updated
                /\ state' = IF final_status = "Failed"
                            THEN ErrorReturn(SetVersion(state, u.version))
                            ELSE [SetVersion(state, u.version) EXCEPT
                                     !.next_step = "QA", !.feedback_for_dev = NoFeedback]
    /\ UNCHANGED <<user_stories, frame, worker_ctb, compare, plan, roles_yaml, room_doc,
                   attachments, dev_attempts, qa_attempts, exhausted, nexternal>>

\* qa_node up to the worker call.
QaNode ==
    /\ pc = "qa_node"
    /\ LET task == CurrentTask
           story == user_stories[StoryId]
       IN  IF open_attachments(attachments) = "FileNotFoundError"
           THEN /\ state' = ErrorReturn(state) /\ pc' = "router"
                /\ UNCHANGED <<worker_ctb, qa_attempts, log>>
           ELSE IF story.room_doc_path = NullPath \/ agent_factory("QA") = "ValueError"
           THEN /\ pc' = "CRASH"
                /\ UNCHANGED <<state, worker_ctb, qa_attempts, log>>
           ELSE /\ log' = Append(log, WorkerCall("QA", task.id))
                /\ worker_ctb' = build_ctb(task, StoryId, "QA", ROLE_GUARDS)
                /\ qa_attempts' = [qa_attempts EXCEPT ![task.id] = @ + 1]
                /\ pc' = "qa_worker"
                /\ UNCHANGED state
    /\ UNCHANGED <<user_stories, tasks, frame, compare, plan, roles_yaml, room_doc,
                   attachments, dev_attempts, exhausted, writes, nexternal>>

\* Mutant: the verdict "QA Failed" moves on to the next task like "Done".
QaFailedNever(qa_status) == FALSE

\* Mutant: a worker result "Failed" is retried like a QA verdict.
QaFailedOrFailed(qa_status) == qa_status \in {"QA Failed", "Failed"}

\* Mutant: the verdict "Done" is sent round the retry loop as well.
QaFailedOrDone(qa_status) == qa_status \in {"QA Failed", "Done"}

\* qa_node: "if qa_status == 'QA Failed'", the test that opens the retry loop.
QaFailed(qa_status) == qa_status = "QA Failed"

\* qa_node from the worker's return on; an exception of the worker is caught nowhere.
QaWorkerReturn(result) ==
    /\ pc = "qa_worker"
    /\ writes' = writes \cup result.writes
    /\ LET task == CurrentTask
           task_index == state.current_task_index
           qa_status == result.status
           u == update_task_status(tasks, task.id, qa_status, task.version)
           current_retries == Get(state.retries, task.id, 0) + 1
           returned == Append(log, WorkerReturn("QA", task.id, result.status))
           updated == Append(returned, StoreUpdate("QA", task.id, qa_status, u.kind))
       IN  IF result.status = "raised" \/ u.kind = "notfound"
           THEN pc' = "CRASH" /\ log' = returned /\ UNCHANGED <<tasks, state>>
           ELSE IF u.kind = "conflict"
           THEN /\ state' = ErrorReturn(state) /\ pc' = "router"
                /\ log' = updated /\ UNCHANGED tasks
           ELSE /\ tasks' = u.table
                /\ pc' = "router"
                /\ log' = updated
                /\ state' = IF QaFailed(qa_status)
                            THEN [SetVersion(state, u.version) EXCEPT
                                     !.next_step = "DEV",
                                     !.feedback_for_dev = result.feedback,
                                     !.retries = SetItem(@, task.id, current_retries)]
                            ELSE [SetVersion(state, u.version) EXCEPT
                                     !.current_task_index = NextTaskIndex(task_index),
                                     !.next_step = "DEV", !.retries = <<>>]
    /\ UNCHANGED <<user_stories, frame, worker_ctb, compare, plan, roles_yaml, room_doc,
                   attachments, dev_attempts, qa_attempts, exhausted, nexternal>>

\* router, on the retry-exhaustion path: the forced "Failed" (a conflict is only
\* printed), the retry entry removed, the index moved on, the snapshot refreshed.
RouterExhausted ==
    LET task == CurrentTask
        u == update_task_status(tasks, task.id, "Failed", task.version)
        table == IF u.kind = "ok" THEN u.table ELSE tasks
        refreshed == [state EXCEPT !.retries = Pop(@, task.id),
                                   !.current_task_index = NextTaskIndex(@),
                                   !.tasks = get_tasks_for_story(table, StoryId)]
    IN  IF u.kind = "notfound"
        THEN pc' = "CRASH" /\ UNCHANGED <<tasks, state, exhausted, log>>
        ELSE /\ tasks' = table
             /\ log' = Append(log, StoreUpdate("ROUTER", task.id, "Failed", u.kind))
             /\ state' = refreshed
             /\ exhausted' = exhausted \cup {task.id}
             /\ pc' = IF refreshed.current_task_index >= Len(refreshed.tasks)
                      THEN "END" ELSE "dev_node"

\* Mutant: a run in error is sent back to planning.
router_restarts(st) ==
    IF st.error THEN "plan_node"
    ELSE IF st.next_step = "PLAN" THEN "plan_node"
    ELSE IF st.next_step = "QA" THEN "qa_node"
    ELSE IF st.next_step = "DEV"
    THEN IF st.current_task_index >= Len(st.tasks) THEN "END"
         ELSE IF RetriesExhausted(Get(st.retries, st.tasks[st.current_task_index + 1].id, 0))
         THEN "exhausted"
         ELSE "dev_node"
    ELSE "END"

\* router's choice of the edge; "exhausted" stands for the branch that forces the
\* task to "Failed" before it returns.
router(st) ==
    IF st.error THEN "END"
    ELSE IF st.next_step = "PLAN" THEN "plan_node"
    ELSE IF st.next_step = "QA" THEN "qa_node"
    ELSE IF st.next_step = "DEV"
    THEN IF st.current_task_index >= Len(st.tasks) THEN "END"
         ELSE IF RetriesExhausted(Get(st.retries, st.tasks[st.current_task_index + 1].id, 0))
         THEN "exhausted"
         ELSE "dev_node"
    ELSE "END"

\* router, as the conditional edge taken after every node.
Router ==
    /\ pc = "router"
    /\ IF router(state) = "exhausted"
       THEN RouterExhausted
       ELSE pc' = router(state) /\ UNCHANGED <<tasks, state, exhausted, log>>
    /\ UNCHANGED <<user_stories, frame, worker_ctb, compare, plan, roles_yaml, room_doc,
                   attachments, dev_attempts, qa_attempts, writes, nexternal>>

\* Another run or process updates a record of the story while the run goes on.
Interfere(fn, id) ==
    /\ pc \notin {"END", "CRASH"}
    /\ nexternal < MaxInterference
    /\ nexternal' = nexternal + 1
    /\ id \in DOMAIN Table(FnTable(fn))
    /\ LET table == Table(FnTable(fn))
           w == CasWrite(table, id, FnColumn(fn), "In Progress", table[id].version)
       IN  IF FnTable(fn) = "tasks"
           THEN tasks' = w.table /\ UNCHANGED user_stories
           ELSE user_stories' = w.table /\ UNCHANGED tasks
    /\ UNCHANGED <<frame, state, pc, worker_ctb, compare, plan, roles_yaml, room_doc,
                   attachments, dev_attempts, qa_attempts, exhausted, writes, log>>

\* AGENTS.MD or BACKLOG.md is removed from the working directory during the run;
\* the run reads them when a node starts, so the removal is placed between nodes.
RemoveAttachments ==
    /\ pc = "router"
    /\ attachments
    /\ attachments' = FALSE
    /\ UNCHANGED <<user_stories, tasks, frame, state, pc, worker_ctb, compare, plan,
                   roles_yaml, room_doc, dev_attempts, qa_attempts, exhausted, writes,
                   nexternal, log>>

Next ==
    \/ PlanNode
    \/ PlanRoomDocUpdate
    \/ PlanInvokePM
    \/ PMUpdateStory
    \/ \E response \in PlanResponses : PMPlan(response)
    \/ Router
    \/ DevNode
    \/ \E result \in AgentRuns(worker_ctb.role, worker_ctb, fs_links) : DevWorkerReturn(result)
    \/ QaNode
    \/ \E result \in AgentRuns("QA", worker_ctb, fs_links) : QaWorkerReturn(result)
    \/ \E fn \in {"update_task_status", "update_story_status"} :
          \E id \in AllTaskIds \cup StoryIds : Interfere(fn, id)
    \/ RemoveAttachments

Spec == Init /\ [][Next]_vars


(***************************************************************************)
(* Faults of the logging sink during a run: the insert of create_log_entry *)
(* or the append of _append_room_log raises (the database is locked, the   *)
(* room document cannot be opened for appending).                          *)
(***************************************************************************)
SinkFault(step, task, sink) == Event("sink", step, task, "raised", sink)

\* Agent._log in the first statement of a worker's run(): create_log_entry is outside
\* every try block, so its exception leaves run() and the node that awaits it.
CreateLogEntryRaises ==
    /\ pc \in {"dev_worker", "qa_worker"}
    /\ log' = Append(log, SinkFault(IF pc = "dev_worker" THEN "DEV" ELSE "QA",
                                    CurrentTask.id, "create_log_entry"))
    /\ pc' = "CRASH"
    /\ UNCHANGED <<user_stories, tasks, frame, state, worker_ctb, compare, plan, roles_yaml,
                   room_doc, attachments, dev_attempts, qa_attempts, exhausted, writes,
                   nexternal>>

\* dev_node and qa_node from the worker's return on, when _append_room_log raises: the
\* append comes after the update of the status, accepted or not, and is in no try
\* block of the node.
AppendRoomLogRaises(result) ==
    /\ pc \in {"dev_worker", "qa_worker"}
    /\ result.status # "raised"
    /\ user_stories[StoryId].room_doc_path # NullPath
    /\ LET task == CurrentTask
           step == IF pc = "dev_worker" THEN "DEV" ELSE "QA"
           final_status == IF result.status # "Failed" THEN "Coding Complete" ELSE "Failed"
           status == IF pc = "dev_worker" THEN final_status ELSE result.status
           u == update_task_status(tasks, task.id, status, task.version)
           returned == Append(log, WorkerReturn(step, task.id, status))
           updated == Append(returned, StoreUpdate(step, task.id, status, u.kind))
       IN  /\ u.kind # "notfound"
           /\ tasks' = IF u.kind = "ok" THEN u.table ELSE tasks
           /\ log' = Append(updated, SinkFault(step, task.id, "append_room_log"))
    /\ writes' = writes \cup result.writes
    /\ pc' = "CRASH"
    /\ UNCHANGED <<user_stories, frame, state, worker_ctb, compare, plan, roles_yaml, room_doc,
                   attachments, dev_attempts, qa_attempts, exhausted, nexternal>>

NextSink ==
    \/ Next
    \/ CreateLogEntryRaises
    \/ \E result \in AgentRuns(worker_ctb.role, worker_ctb, fs_links) : AppendRoomLogRaises(result)

SpecSink == Init /\ [][NextSink]_vars

(***************************************************************************)
(* Calls of pick_config: on a client that build_llm_client loads from      *)
(* models.yaml, and on a client constructed directly from LLMConfig        *)
(* values.  Overrides are keyed by ids of tasks and stories.               *)
(***************************************************************************)
RawCfgs ==
    {RawCfg({}, "", 0, 0, NoProvider, TRUE),
     RawCfg({"temperature"}, "", 9, 0, NoProvider, TRUE),
     RawCfg({"name", "temperature", "provider"}, "gpt-4o-mini", 3, 0, "openai", TRUE),
     RawCfg({"name", "max_tokens", "provider"}, "claude-3", 0, 500, "anthropic", TRUE),
     RawCfg({"name"}, "gpt-4.1", 0, 0, NoProvider, TRUE),
     RawCfg({"temperature"}, "", 0, 0, NoProvider, FALSE)}

DirectConfigs ==
    {LLMConfig("gpt-4o-mini", 3, 2000, "openai"),
     LLMConfig("gpt-4o", 9, 2000, NoProvider),
     LLMConfig("claude-3", 2, 500, "anthropic"),
     LLMConfig("gpt-4.1", 2, 2000, NoProvider)}

ConfigRoles == {"FE", "Auditor"}

ConfigTaskIds == {NoId, "", "S1.T03", "S1.T01"}

ConfigStoryIds == {NoId, "S1"}

DefaultProviders == {"openai", "azure"}

\* The map with the entry key |-> value when present holds, the empty map otherwise.
Entry(present, key, value) == [k \in IF present THEN {key} ELSE {} |-> value]

YamlFiles ==
    {NoYaml, [NoYaml EXCEPT !.exists = TRUE]}
    \cup {[exists |-> TRUE, parses |-> TRUE, default_provider |-> provider,
           models |-> [k \in (IF fe THEN {"FE"} ELSE {}) \cup (IF qa THEN {"QA"} ELSE {})
                        |-> IF k = "FE" THEN role_cfg
                            ELSE RawCfg({"name"}, "gpt-4o-mini", 0, 0, NoProvider, TRUE)],
           tasks |-> Entry(task, "S1.T03", task_cfg),
           stories |-> Entry(story, "S1", story_cfg)] :
          provider \in {NoProvider, "azure"}, fe \in BOOLEAN, qa \in BOOLEAN,
          task \in BOOLEAN, story \in BOOLEAN,
          role_cfg \in RawCfgs, task_cfg \in RawCfgs, story_cfg \in RawCfgs}

DirectClients ==
    {LLMClient(provider, Entry(fe, "FE", role_cfg), Entry(task, "S1.T03", task_cfg),
               Entry(story, "S1", story_cfg)) :
        provider \in DefaultProviders, fe \in BOOLEAN, task \in BOOLEAN, story \in BOOLEAN,
        role_cfg \in DirectConfigs, task_cfg \in DirectConfigs, story_cfg \in DirectConfigs}

ConfigInit ==
    /\ StoreTables /\ ClientsIdle /\ GuardIdle /\ RunIdle
    /\ \E role \in ConfigRoles, task_id \in ConfigTaskIds, story_id \in ConfigStoryIds :
          \/ \E yaml \in YamlFiles :
                llm_call = [pc |-> "load", source |-> "models.yaml", yaml |-> yaml,
                            client |-> NoClient, role |-> role, task_id |-> task_id,
                            story_id |-> story_id, result |-> NoConfig]
          \/ \E client \in DirectClients :
                llm_call = [pc |-> "call", source |-> "direct", yaml |-> NoYaml,
                            client |-> client, role |-> role, task_id |-> task_id,
                            story_id |-> story_id, result |-> NoConfig]

BuildLlmClient ==
    /\ llm_call.pc = "load"
    /\ llm_call' = [llm_call EXCEPT !.pc = "call", !.client = build_llm_client(llm_call.yaml)]
    /\ UNCHANGED <<storeVars, guardVars, runVars>>

PickConfig ==
    /\ llm_call.pc = "call"
    /\ llm_call' = [llm_call EXCEPT
                       !.pc = "done",
                       !.result = pick_config(llm_call.client, llm_call.role,
                                              llm_call.task_id, llm_call.story_id)]
    /\ UNCHANGED <<storeVars, guardVars, runVars>>

ConfigNext == BuildLlmClient \/ PickConfig

SpecConfig == ConfigInit /\ [][ConfigNext]_vars

(***************************************************************************)
(* Claims about the store                                                  *)
(***************************************************************************)
DoneUpdate(c) == calls[c].pc = "done" /\ calls[c].fn \in UpdateFns /\ calls[c].kind # "notfound"

\* C1: an update call (update_task_status, update_story_status,
\* update_story_room_doc) whose supplied expected version differs from the version
\* stored when its UPDATE runs fails with the optimistic-lock conflict and leaves
\* the record (status, room_doc_path, version) and its whole table as they were.
C1_MismatchRejected ==
    \A c \in Clients :
        (/\ DoneUpdate(c)
         /\ calls[c].expected # None
         /\ calls[c].expected # calls[c].before[calls[c].id].version)
        => (/\ calls[c].kind = "conflict"
            /\ calls[c].after = calls[c].before)

C1_Witness ==
    \E c \in Clients :
        /\ DoneUpdate(c)
        /\ calls[c].expected # None
        /\ calls[c].expected # calls[c].before[calls[c].id].version
        /\ calls[c].before[calls[c].id].version > SchemaDefaultVersion
        /\ calls[c].kind = "conflict"

\* C2: a record's stored version is its initial version plus the number of update
\* calls on it that returned normally, and the version an accepted call returns is
\* the version stored right after its UPDATE.
C2_VersionCountsAccepted ==
    /\ \A id \in DOMAIN tasks :
          tasks[id].version = SchemaDefaultVersion + accepted[<<"tasks", id>>]
    /\ \A id \in DOMAIN user_stories :
          user_stories[id].version = SchemaDefaultVersion + accepted[<<"user_stories", id>>]
    /\ \A c \in Clients :
          (DoneUpdate(c) /\ calls[c].kind = "ok")
          => (/\ calls[c].returned = calls[c].after[calls[c].id].version
              /\ calls[c].after[calls[c].id].version
                   = calls[c].before[calls[c].id].version + 1)

C2_Witness ==
    \E c \in Clients, d \in Clients :
        /\ DoneUpdate(c) /\ calls[c].kind = "ok" /\ calls[c].returned = 3
        /\ DoneUpdate(d) /\ calls[d].kind = "conflict"
        /\ calls[d].fn = calls[c].fn /\ calls[d].id = calls[c].id
        /\ accepted[<<FnTable(calls[c].fn), calls[c].id>>] = 2

\* C3: of two update calls on the same record that both observed the same stored
\* version (supplied as expected version or read by the call), at most one is
\* accepted; the other ends with a conflict and changes nothing.
C3_AtMostOneWinner ==
    \A c \in Clients, d \in Clients :
        (/\ c # d
         /\ DoneUpdate(c) /\ DoneUpdate(d)
         /\ FnTable(calls[c].fn) = FnTable(calls[d].fn)
         /\ calls[c].id = calls[d].id
         /\ calls[c].compare = calls[d].compare
         /\ calls[c].kind = "ok")
        => (/\ calls[d].kind = "conflict"
            /\ calls[d].after = calls[d].before)

C3_Witness ==
    \E c \in Clients, d \in Clients :
        /\ c # d
        /\ DoneUpdate(c) /\ DoneUpdate(d)
        /\ calls[c].fn = "update_task_status" /\ calls[d].fn = "update_task_status"
        /\ calls[c].id = calls[d].id
        /\ calls[c].expected = None /\ calls[d].expected = None
        /\ calls[c].compare = calls[d].compare
        /\ calls[c].kind = "ok" /\ calls[d].kind = "conflict"
        /\ tasks[calls[c].id].status = calls[c].value

BatchIds(ids) == {ids[i] : i \in 1..Len(ids)}

\* C4: create_tasks(batch) is all-or-nothing: after it returned or failed, either
\* every record of the batch was inserted with version 1 and status To Do, or the
\* table is as it was before the call; the call returns normally exactly in the
\* first case, and no other row is changed.
C4_CreateAllOrNothing ==
    \A c \in Clients :
        (calls[c].pc = "done" /\ calls[c].fn = "create_tasks")
        => LET b == calls[c].before
               a == calls[c].after
               all == /\ DOMAIN a = DOMAIN b \cup BatchIds(calls[c].batch)
                      /\ \A id \in BatchIds(calls[c].batch) :
                            /\ id \notin DOMAIN b
                            /\ a[id].version = 1
                            /\ a[id].status = "To Do"
                      /\ \A id \in DOMAIN b : a[id] = b[id]
           IN  /\ all \/ a = b
               /\ (calls[c].kind = "ok") <=> all

\* A batch whose second row collides after its first row was inserted.
C4_Witness ==
    \E c \in Clients :
        /\ calls[c].pc = "done" /\ calls[c].fn = "create_tasks"
        /\ calls[c].kind = "integrity"
        /\ Len(calls[c].batch) = 2
        /\ calls[c].batch[1] \notin DOMAIN calls[c].before
        /\ calls[c].batch[2] \in DOMAIN calls[c].before
        /\ calls[c].after = calls[c].before

(***************************************************************************)
(* Claims about the guard                                                  *)
(***************************************************************************)
\* The canonical root and target of the call under check, and the target's
\* root-relative path as the text the patterns are matched against.
C6_Root == resolve(PurePath(guard_call.root), fs_links)
C6_Target ==
    resolve(joinpath([abs |-> TRUE, parts |-> C6_Root], guard_call.path), fs_links)
C6_Inside == IsPrefix(C6_Root, C6_Target)
C6_Relative == as_posix(SubSeq(C6_Target, Len(C6_Root) + 1, Len(C6_Target)))
C6_Matches ==
    \E i \in 1..Len(guard_call.patterns) : fnmatch(C6_Relative, guard_call.patterns[i])

\* C6: ensure_guarded_write succeeds, returning the canonical absolute target, if
\* and only if the canonical target lies inside the root and its root-relative
\* path matches at least one pattern; a target resolving outside the root is
\* rejected whatever the patterns, and an empty pattern list rejects every path.
C6_GuardIff ==
    guard_call.pc = "returned"
    => /\ guard_call.result.ok <=> (C6_Inside /\ C6_Matches)
       /\ guard_call.result.ok => guard_call.result.path = C6_Target
       /\ ~C6_Inside => ~guard_call.result.ok
       /\ guard_call.patterns = <<>> => ~guard_call.result.ok

\* An absolute path into the root is allowed after resolution.
C6_Witness ==
    /\ guard_call.pc = "returned"
    /\ guard_call.result.ok
    /\ fs_links
    /\ guard_call.path = <<"/", "r", "/", "a">>
    /\ guard_call.patterns = <<<<"a">>>>

(***************************************************************************)
(* Claims about the run                                                    *)
(***************************************************************************)
\* The defects of item i of a batch, stated on the item alone.
C5_ItemDefect(items, i) ==
    LET item == items[i]
        acceptance == IF "acceptance" \in item.keys THEN item.acceptance ELSE List(<<>>)
    IN  \/ \E key \in {"id", "description", "assignee_role", "kind", "estimate"} :
              key \notin item.keys
        \/ ~item.id.str
        \/ item.id.story # StoryId
        \/ \E j \in 1..Len(items) : j # i /\ items[j].id = item.id
        \/ /\ "dependencies" \in item.keys
           /\ \/ ~item.dependencies.list
              \/ \E d \in 1..Len(item.dependencies.items) : ~item.dependencies.items[d].str
        \/ ~acceptance.list
        \/ acceptance.items = <<>>
        \/ \E a \in 1..Len(acceptance.items) : ~acceptance.items[a].str
        \/ item.estimate \notin {"S", "M", "L"}

C5_Defective(response) ==
    /\ response.json /\ response.list
    /\ \E i \in 1..Len(response.items) : C5_ItemDefect(response.items, i)

C7_EveryWriteGuarded == \A w \in writes : w.guarded

\* The FE worker's artifact write, which is guarded, next to the PM's, which is not.
C7_Witness ==
    /\ Write("FE", FETarget(StoryId), TRUE) \in writes
    /\ Write("PM", RoomDocFile(StoryId), FALSE) \in writes

\* C8: with MAX_RETRIES = 2 a task whose QA verdict is always "QA Failed" (and whose
\* DEV worker never fails) has had exactly MAX_RETRIES + 1 = 3 DEV attempts when the
\* router forces it to "Failed" and moves the index on.
C8_ThreeDevAttempts == \A t \in exhausted : dev_attempts[t] = MAX_RETRIES + 1

\* The first task forced to "Failed" by the router, and the run gone on to the second.
C8_Witness ==
    /\ "S1.T01" \in exhausted
    /\ dev_attempts["S1.T01"] = MAX_RETRIES /\ qa_attempts["S1.T01"] = MAX_RETRIES
    /\ tasks["S1.T01"].status = "Failed"
    /\ state.current_task_index = 1

\* C9: for every sequence of worker outcomes, dev_node invokes the worker at most
\* MAX_RETRIES + 1 times for any one task.
C9_DevAttemptsBounded == \A t \in AllTaskIds : dev_attempts[t] <= MAX_RETRIES + 1

\* Two tasks in a row used up their retries, and the run went on to the third.
C9_Witness ==
    /\ exhausted = {"S1.T01", "S1.T02"}
    /\ dev_attempts["S1.T01"] = MAX_RETRIES
    /\ dev_attempts["S1.T02"] = MAX_RETRIES
    /\ dev_attempts["S1.T03"] = 1

\* C10: current_task_index never decreases from one state of a run to the next,
\* the router's retry-exhaustion path included.
C10_IndexNeverDecreases ==
    [][state'.current_task_index >= state.current_task_index]_vars

\* The index moved once by a QA verdict and once by the router's exhaustion path.
C10_Witness ==
    /\ state.current_task_index = 2
    /\ exhausted = {"S1.T02"}
    /\ tasks["S1.T01"].status = "Done"


(***************************************************************************)
(* Claims about the order of a run's steps, read off the history.          *)
(***************************************************************************)
Positions == 1..Len(log)

IsCall(e, step) == e.ev = "call" /\ e.step = step

IsReturn(e, step) == e.ev = "return" /\ e.step = step

\* An update of the run that the store accepted.
IsAccepted(e) == e.ev = "update" /\ e.kind = "ok"

IsConflict(e) == e.ev = "update" /\ e.kind = "conflict"

\* The id of the task at a 0-based index of the snapshot.
TaskAt(index) == state.tasks[index + 1].id

\* "Done", or "Failed" written by the router when the retries are used up.
TerminalVerdict(e, task) ==
    /\ IsAccepted(e) /\ e.task = task
    /\ \/ e.status = "Done"
       \/ e.status = "Failed" /\ e.step = "ROUTER"

\* C11: the DEV worker for the task at index i+1 is never invoked before a terminal
\* verdict is recorded in the store for the task at index i: "Done", or "Failed" set
\* after the retry budget was exhausted.
C11_TerminalVerdictBeforeNextDev ==
    \A p \in Positions :
        IsCall(log[p], "DEV") /\ log[p].index > 0 =>
            \E q \in 1..(p - 1) : TerminalVerdict(log[q], TaskAt(log[p].index - 1))

\* The QA worker of the first task returned "Failed" on its only run; the store holds
\* "Failed" with no retry used, and the DEV worker of the second task is invoked.
C11_Witness ==
    /\ pc = "dev_worker" /\ state.current_task_index = 1
    /\ qa_attempts["S1.T01"] = 1 /\ dev_attempts["S1.T01"] = 1
    /\ exhausted = {}
    /\ tasks["S1.T01"].status = "Failed"
    /\ nexternal = 0


\* The step in which the PM worker returns "Done": the plan was valid and stored.
PlanProduced == log' = Append(log, WorkerReturn("PLAN", worker_ctb.task_id, "Done"))

\* The rows the step added: one per item of the plan, each with version 1, and no
\* other row touched.
PlanPersisted ==
    LET added == DOMAIN tasks' \ DOMAIN tasks
    IN  /\ Cardinality(added) = Len(plan'.response.items)
        /\ \A t \in added : tasks'[t].version = 1 /\ tasks'[t].story_id = StoryId
        /\ \A t \in DOMAIN tasks : tasks'[t] = tasks[t]

IsWorkerCall(e) == e.ev = "call" /\ e.step \in {"DEV", "QA"}

\* The DEV and QA invocations of the run, in the order they were made.
WorkerCalls == SelectSeq(log, IsWorkerCall)

\* Every task of the plan had its DEV worker succeed and its QA worker return "Done",
\* and no DEV worker failed and no QA worker returned anything but "Done".
AllPassFirstTry ==
    /\ state.tasks # <<>>
    /\ \A i \in 1..Len(state.tasks) :
          /\ \E p \in Positions : /\ IsReturn(log[p], "DEV") /\ log[p].task = state.tasks[i].id
                                  /\ log[p].status = "Coding Complete"
          /\ \E p \in Positions : /\ IsReturn(log[p], "QA") /\ log[p].task = state.tasks[i].id
                                  /\ log[p].status = "Done"
    /\ \A p \in Positions :
          /\ IsReturn(log[p], "DEV") => log[p].status = "Coding Complete"
          /\ IsReturn(log[p], "QA") => log[p].status = "Done"

\* FINISH (reached, or the router's next choice) with every task "Done" after one DEV
\* and one QA invocation each, in index order.
FinishedInOrder ==
    /\ ~state.error
    /\ pc = "END" \/ (pc = "router" /\ router(state) = "END")
    /\ state.current_task_index = Len(state.tasks)
    /\ \A i \in 1..Len(state.tasks) : tasks[state.tasks[i].id].status = "Done"
    /\ Len(WorkerCalls) = 2 * Len(state.tasks)
    /\ \A i \in 1..Len(state.tasks) :
          /\ IsCall(WorkerCalls[2 * i - 1], "DEV") /\ IsCall(WorkerCalls[2 * i], "QA")
          /\ WorkerCalls[2 * i - 1].task = state.tasks[i].id
          /\ WorkerCalls[2 * i].task = state.tasks[i].id
          /\ WorkerCalls[2 * i - 1].index = i - 1 /\ WorkerCalls[2 * i].index = i - 1

\* C12 as stated: when PLAN produces N valid tasks exactly N rows are persisted, each
\* with version 1; and when every task's DEV succeeds and every QA verdict is "Done"
\* at the first try, the run ends in FINISH with current_task_index = N, every task
\* "Done", one DEV and one QA invocation per task in index order.
C12_AllPassFinishes ==
    /\ [][PlanProduced => PlanPersisted]_vars
    /\ [](AllPassFirstTry => FinishedInOrder)

\* C12 amended: the same, for a run during which no other writer updates the story's
\* task records.
C12_AllPassFinishesAlone ==
    /\ [][PlanProduced => PlanPersisted]_vars
    /\ [](AllPassFirstTry /\ nexternal = 0 => FinishedInOrder)

\* A run of three tasks, each passed by QA at the first try, ended in FINISH.
C12_Witness ==
    /\ pc = "END" /\ AllPassFirstTry /\ nexternal = 0
    /\ state.current_task_index = 3 /\ Len(state.tasks) = 3
    /\ \A t \in AllTaskIds : tasks[t].status = "Done" /\ dev_attempts[t] = 1

\* The QA worker's return at position p is the n-th "QA Failed" of its task.
NthQaFailed(p, n) ==
    /\ IsReturn(log[p], "QA") /\ log[p].status = "QA Failed"
    /\ Cardinality({q \in 1..p : /\ IsReturn(log[q], "QA") /\ log[q].task = log[p].task
                                 /\ log[q].status = "QA Failed"}) = n

\* C13: with MAX_RETRIES = 2, once a task has got "QA Failed" twice and the run has
\* gone on, the next thing the run does is the 3rd DEV attempt; and when the worker
\* reports "Failed" on it, the task goes from "In Progress" to "Failed", QA is not
\* invoked again and the run is in ERROR.
C13_ThirdAttemptThenError ==
    \A p \in Positions :
        NthQaFailed(p, MAX_RETRIES) /\ p + 1 < Len(log) =>
            /\ log[p + 2] = [log[p + 1] EXCEPT !.step = "DEV", !.status = "In Progress"]
            /\ p + 4 <= Len(log) /\ log[p + 4].status = "Failed" =>
                  /\ IsReturn(log[p + 4], "DEV")
                  /\ p + 5 <= Len(log) /\ IsAccepted(log[p + 5]) =>
                        /\ tasks[log[p].task].status = "Failed" \/ nexternal > 0
                        /\ state.error /\ Len(log) = p + 5

\* The second task got "QA Failed" twice; the router forced it to "Failed" after its
\* 2nd DEV attempt and the run is at the third task.
C13_Witness ==
    /\ \E p \in Positions : /\ NthQaFailed(p, MAX_RETRIES) /\ log[p].task = "S1.T02"
                            /\ Len(log) > p + 1
                            /\ log[p + 2] = [StoreUpdate("ROUTER", "S1.T02", "Failed", "ok")
                                                EXCEPT !.index = 1]
    /\ dev_attempts["S1.T02"] = MAX_RETRIES
    /\ pc = "dev_node" /\ state.current_task_index = 2

\* The step in which the worker invoked by dev_node returns "Failed".
DevFailedStep ==
    /\ Len(log') = Len(log) + 2
    /\ IsReturn(log'[Len(log) + 1], "DEV") /\ log'[Len(log) + 1].status = "Failed"

\* A worker invoked by dev_node has returned "Failed".
DevFailed == \E p \in Positions : IsReturn(log[p], "DEV") /\ log[p].status = "Failed"

\* The run is in ERROR at the task and with the retry counters of the failed call.
DevFailedIsFatal ==
    /\ state'.error /\ pc' = "router"
    /\ state'.current_task_index = state.current_task_index
    /\ state'.retries = state.retries

\* Nothing more is done: no call, no update, the run state as it is.
NothingMore == log' = log /\ state' = state /\ pc' \in {"router", "END"}

\* C14 as stated: when the worker invoked in DEV reports "Failed", the task's persisted
\* status becomes "Failed", the run ends in ERROR, and from then on no QA and no
\* further DEV worker is invoked and current_task_index and the retry counters are
\* unchanged.
C14_DevFailedIsFatal ==
    /\ [][DevFailedStep => tasks'[CurrentTask.id].status = "Failed" /\ DevFailedIsFatal]_vars
    /\ [][DevFailed => NothingMore]_vars

\* C14 amended: the same, the persisted status becoming "Failed" unless dev_node's
\* update meets an optimistic-lock conflict.
C14_DevFailedIsFatalUnlessConflict ==
    /\ [][DevFailedStep =>
            /\ IsAccepted(log'[Len(log')]) => tasks'[CurrentTask.id].status = "Failed"
            /\ DevFailedIsFatal]_vars
    /\ [][DevFailed => NothingMore]_vars

\* The DEV worker of the second task returned "Failed" on a retry; the store holds
\* "Failed" and the run ended in ERROR without another call.
C14_Witness ==
    /\ DevFailed /\ pc = "END" /\ state.error
    /\ IsAccepted(log[Len(log)]) /\ log[Len(log)].task = "S1.T02"
    /\ tasks["S1.T02"].status = "Failed"
    /\ dev_attempts["S1.T02"] = 2 /\ state.current_task_index = 1

\* The step in which an update issued by the run meets an optimistic-lock conflict.
ConflictStep == \E p \in (Len(log) + 1)..Len(log') : IsConflict(log'[p])

\* An update issued by the run has met an optimistic-lock conflict.
Conflicted == \E p \in Positions : IsConflict(log[p])

\* C15: every optimistic-lock conflict raised by an update the run issues (in PLAN, in
\* DEV, in QA, or when the retry-exhaustion path forces a task to "Failed") ends the
\* run in ERROR: after it no worker is invoked, current_task_index does not advance
\* and the update is not retried.
C15_ConflictIsFatal ==
    /\ [][ConflictStep =>
            /\ state'.error /\ pc' = "router"
            /\ state'.current_task_index = state.current_task_index]_vars
    /\ [][Conflicted => NothingMore]_vars

\* The router's forced "Failed" of the first task met a conflict; the run went on and
\* called the DEV worker of the second task.
C15_Witness ==
    /\ \E p \in Positions : /\ IsConflict(log[p]) /\ log[p].step = "ROUTER"
                            /\ log[p].task = "S1.T01"
                            /\ p + 2 <= Len(log) /\ IsCall(log[p + 2], "DEV")
    /\ ~state.error /\ pc = "dev_worker" /\ state.current_task_index = 1

\* The step of plan_node, dev_node or qa_node that builds the worker's context while
\* AGENTS.MD or BACKLOG.md cannot be read.
AttachmentsMissingStep ==
    /\ ~attachments
    /\ pc \in {"plan_attachments", "dev_node", "qa_node"} /\ pc' # pc

Terminal == pc = "END" \/ state.error

\* C17: FINISH and ERROR are terminal: once a run has reached either of them it
\* invokes no worker, issues no store update and changes none of current_task_index,
\* retries, tasks or feedback_for_dev.
C17_TerminalStatesStay ==
    [][Terminal =>
          /\ log' = log
          /\ state'.current_task_index = state.current_task_index
          /\ state'.retries = state.retries
          /\ state'.tasks = state.tasks
          /\ state'.feedback_for_dev = state.feedback_for_dev
          /\ pc' \in {"router", "END"}]_vars

\* A run ended in ERROR by a conflict of qa_node's update, with the attachments there.
C17_Witness ==
    /\ pc = "END" /\ state.error /\ attachments
    /\ IsConflict(log[Len(log)]) /\ log[Len(log)].step = "QA"

IsAnyCall(e) == e.ev = "call"

IsAnyReturn(e) == e.ev = "return"

\* Worker invocations that have not returned.
InProgress == Len(SelectSeq(log, IsAnyCall)) - Len(SelectSeq(log, IsAnyReturn))

\* C18: within one run at most one worker invocation is in progress at any time: the
\* next DEV, QA or store update of the run starts only after the current worker call
\* has returned, so DEV and QA never overlap and tasks are worked in increasing index
\* order (DEV of a task, then its QA, never a task of a lower index afterwards).
C18_OneWorkerAtATime ==
    /\ InProgress \in {0, 1}
    /\ InProgress = 1 <=> pc \in {"pm_update_story", "pm_plan", "dev_worker", "qa_worker"}
    /\ \A p \in Positions :
          IsAnyCall(log[p]) /\ p < Len(log) =>
              \/ /\ IsAnyReturn(log[p + 1])
                 /\ log[p + 1].step = log[p].step /\ log[p + 1].task = log[p].task
              \/ \* the PM's own update of the story
                 /\ log[p].step = "PLAN" /\ log[p + 1].ev = "update"
                 /\ log[p + 1].step = "PLAN"
    /\ \A q \in 1..Len(WorkerCalls) :
          /\ \A p \in 1..(q - 1) : WorkerCalls[p].index <= WorkerCalls[q].index
          /\ WorkerCalls[q].task = TaskAt(WorkerCalls[q].index)
          /\ IsCall(WorkerCalls[q], "QA") =>
                /\ q > 1 /\ IsCall(WorkerCalls[q - 1], "DEV")
                /\ WorkerCalls[q - 1].task = WorkerCalls[q].task

\* The QA worker of the third task is running, after five earlier calls that returned.
C18_Witness ==
    /\ pc = "qa_worker" /\ InProgress = 1
    /\ state.current_task_index = 2
    /\ Len(WorkerCalls) >= 6
    /\ qa_attempts["S1.T02"] = 2

\* A worker invocation that did not return: the worker raised.
SomeWorkerRaised == \E p \in Positions : IsAnyReturn(log[p]) /\ log[p].status = "raised"

\* C19: every run started by run_story_workflow reaches FINISH or ERROR provided every
\* worker invocation returns, whatever the workers' outcomes: in particular a run is
\* never ended by an exception unless a worker invocation failed to return.
C19_RunEndsInFinishOrError == pc = "CRASH" => SomeWorkerRaised

\* The story's room_doc_path is NULL while its room document exists: the PM returned
\* "Done" and dev_node of the first task ended the run by a TypeError.
C19_Witness ==
    /\ pc = "CRASH" /\ ~SomeWorkerRaised
    /\ user_stories[StoryId].room_doc_path = NullPath
    /\ log[Len(log)] = WorkerReturn("PLAN", "S1.PLAN", "Done")
    /\ state.tasks # <<>> /\ agent_factory(CurrentTask.assignee_role) # "ValueError"


(***************************************************************************)
(* Claims about the resolved model configuration.                          *)
(***************************************************************************)
HasTaskOverride == llm_call.task_id \in DOMAIN llm_call.client.overrides.tasks

HasStoryOverride == llm_call.story_id \in DOMAIN llm_call.client.overrides.stories

HasRoleDefault == llm_call.role \in DOMAIN llm_call.client.role_to_config

\* The entry of the highest tier that has one, or the built-in default.
HighestTier ==
    IF HasTaskOverride THEN llm_call.client.overrides.tasks[llm_call.task_id]
    ELSE IF HasStoryOverride THEN llm_call.client.overrides.stories[llm_call.story_id]
    ELSE IF HasRoleDefault THEN llm_call.client.role_to_config[llm_call.role]
    ELSE [name |-> "gpt-4o", temperature |-> 2, max_tokens |-> 2000,
          provider |-> NoProvider]

\* C20: the resolved configuration comes from the highest tier that has an entry, in
\* the order task override, story override, role default, built-in default (gpt-4o,
\* temperature 0.2, max tokens 2000): its name, temperature and max tokens are that
\* tier's, and the built-in default is used only when none of the three exists.
C20_HighestTierWins ==
    llm_call.pc = "done" =>
        /\ llm_call.result.name = HighestTier.name
        /\ llm_call.result.temperature = HighestTier.temperature
        /\ llm_call.result.max_tokens = HighestTier.max_tokens

\* A task override, a story override and a role default that differ, loaded from
\* models.yaml, and the call resolved to the task override.
C20_Witness ==
    /\ llm_call.pc = "done" /\ llm_call.source = "models.yaml"
    /\ HasTaskOverride /\ HasStoryOverride /\ HasRoleDefault
    /\ llm_call.client.overrides.tasks[llm_call.task_id].name = "claude-3"
    /\ llm_call.client.overrides.stories[llm_call.story_id].name = "gpt-4o-mini"
    /\ llm_call.client.role_to_config[llm_call.role].name = "gpt-4.1"
    /\ llm_call.result.name = "claude-3" /\ llm_call.result.max_tokens = 500


(***************************************************************************)
(* Claims about the provider of a resolved configuration.                  *)
(***************************************************************************)
\* models.yaml was read and every entry of it was converted.
YamlLoaded ==
    /\ llm_call.source = "models.yaml"
    /\ llm_call.yaml.exists /\ llm_call.yaml.parses
    /\ \A part \in {llm_call.yaml.models, llm_call.yaml.tasks, llm_call.yaml.stories} :
          \A k \in DOMAIN part : part[k].valid

\* The provider the entry of key sets: in models.yaml for a client loaded from it,
\* in the LLMConfig otherwise; NoProvider when there is no entry or it sets none.
SetProvider(configs, raw_map, key) ==
    IF key \notin DOMAIN configs THEN NoProvider
    ELSE IF YamlLoaded /\ key \in DOMAIN raw_map
    THEN RawGet(raw_map[key], "provider", NoProvider)
    ELSE configs[key].provider

RoleProvider ==
    SetProvider(llm_call.client.role_to_config, llm_call.yaml.models, llm_call.role)

MatchedTierProvider ==
    IF HasTaskOverride
    THEN SetProvider(llm_call.client.overrides.tasks, llm_call.yaml.tasks, llm_call.task_id)
    ELSE IF HasStoryOverride
    THEN SetProvider(llm_call.client.overrides.stories, llm_call.yaml.stories,
                     llm_call.story_id)
    ELSE RoleProvider

\* C21: the provider of a resolved configuration is the provider the matched tier
\* sets, otherwise the provider the role's default entry sets, otherwise the global
\* default provider, for clients loaded from models.yaml and for clients constructed
\* directly (so a task override that sets only the temperature, under a role default
\* of provider openai, resolves to openai whatever the global default).
C21_ProviderInherited ==
    llm_call.pc = "done" =>
        llm_call.result.provider =
            IF Truthy(MatchedTierProvider) THEN MatchedTierProvider
            ELSE IF Truthy(RoleProvider) THEN RoleProvider
            ELSE llm_call.client.default_provider

\* The scenario of the claim loaded from models.yaml: the task override sets only the
\* temperature, the role default is of provider openai, the global default is azure,
\* and the call resolves to azure.
C21_Witness ==
    /\ llm_call.pc = "done" /\ YamlLoaded
    /\ llm_call.role = "FE" /\ llm_call.task_id = "S1.T03"
    /\ llm_call.yaml.default_provider = "azure"
    /\ "FE" \in DOMAIN llm_call.yaml.models /\ "S1.T03" \in DOMAIN llm_call.yaml.tasks
    /\ llm_call.yaml.models["FE"] =
           RawCfg({"name", "temperature", "provider"}, "gpt-4o-mini", 3, 0, "openai", TRUE)
    /\ llm_call.yaml.tasks["S1.T03"] = RawCfg({"temperature"}, "", 9, 0, NoProvider, TRUE)
    /\ llm_call.result = LLMConfig("gpt-4o", 9, 2000, "azure")

(***************************************************************************)
(* Claims about worker failures and the retry loop.                        *)
(***************************************************************************)
\* A return of status "Failed" of a worker invoked in DEV or in QA.
IsWorkerFailed(e) == e.ev = "return" /\ e.step \in {"DEV", "QA"} /\ e.status = "Failed"

\* The step in which a DEV or QA worker returns "Failed" to its node.
WorkerFailedStep ==
    /\ Len(log') > Len(log)
    /\ \E p \in (Len(log) + 1)..Len(log') : IsWorkerFailed(log'[p])

\* The step in which dev_node invokes its worker.
DevCallStep == Len(log') > Len(log) /\ IsCall(log'[Len(log')], "DEV")

NoRetryCounted ==
    \A t \in DOMAIN state'.retries : state'.retries[t] <= Get(state.retries, t, 0)

\* C22: a worker result "Failed", in the DEV step or in the QA step, never goes
\* through the QA retry loop: the step that receives it increments no retry counter
\* and does not set feedback_for_dev, and no DEV attempt of the same task follows it.
C22_FailedIsNotRetried ==
    [][/\ WorkerFailedStep =>
            NoRetryCounted /\ state'.feedback_for_dev = state.feedback_for_dev
       /\ DevCallStep =>
            \A p \in Positions :
                ~(IsWorkerFailed(log[p]) /\ log[p].task = log'[Len(log')].task)]_vars

\* The QA worker of the first task returned "Failed" after one retry of the task, and
\* the run went on to the DEV worker of the second task with no retry counted.
C22_Witness ==
    /\ pc = "dev_worker" /\ state.current_task_index = 1
    /\ \E p \in Positions : /\ log[p].step = "QA" /\ IsWorkerFailed(log[p])
                            /\ log[p].task = "S1.T01"
    /\ dev_attempts["S1.T01"] = 2
    /\ state.retries = <<>> /\ state.feedback_for_dev = NoFeedback
    /\ log[Len(log)] = WorkerCall("DEV", "S1.T02")

\* The PM worker returned to plan_node and its run added no task row to the store.
ZeroTasksProduced ==
    /\ plan.chosen /\ DOMAIN tasks = plan.before
    /\ \E p \in Positions : IsReturn(log[p], "PLAN") /\ log[p].status # "raised"

\* C23: if the PM worker produces zero tasks in PLAN the run ends in ERROR and no DEV
\* worker is invoked, whatever task rows the store already holds for the story.
C23_ZeroTasksIsError ==
    ZeroTasksProduced => state.error /\ \A p \in Positions : ~IsCall(log[p], "DEV")

\* The store held the rows of an earlier run, the PM's plan was the empty list, and
\* the DEV worker was invoked for the first of the earlier rows.
C23_Witness ==
    /\ ZeroTasksProduced /\ plan.response = [json |-> TRUE, list |-> TRUE, items |-> <<>>]
    /\ plan.before = AllTaskIds
    /\ ~state.error /\ pc = "dev_worker"
    /\ log[Len(log)] = WorkerCall("DEV", "S1.T01")

\* The retry counter of a task has reached the router's exhaustion threshold.
AtThreshold(t) == RetriesExhausted(Get(state.retries, t, 0))

\* The step of the router on a task at the threshold: the forced "Failed" (which the
\* store accepts or rejects for a conflict), the counter dropped, no worker invoked.
ForcedFailed(t) ==
    /\ \E kind \in {"ok", "conflict"} :
          /\ log' = Append(log, StoreUpdate("ROUTER", t, "Failed", kind))
          /\ kind = "ok" => tasks'[t].status = "Failed"
    /\ t \notin DOMAIN state'.retries
    /\ pc' \in {"dev_node", "END"}

\* C24: in every state of a run the retry counter of every task is at most
\* MAX_RETRIES (2), and a task whose counter has reached the exhaustion threshold is
\* forced to "Failed" before any further DEV attempt of it: the counter is at the
\* threshold only when the router is next, the router's step is the forced update, and
\* no DEV worker is invoked for a task at the threshold.
C24_RetriesBounded ==
    /\ [](\A t \in DOMAIN state.retries :
             /\ state.retries[t] <= MAX_RETRIES
             /\ AtThreshold(t) => pc = "router" /\ ~state.error /\ t = CurrentTask.id)
    /\ [][\A t \in DOMAIN state.retries :
             /\ AtThreshold(t) /\ pc' # pc => ForcedFailed(t)
             /\ AtThreshold(t) => log' = log \/ ~IsCall(log'[Len(log')], "DEV")]_vars

\* The second task was forced to "Failed" at counter 2 and the run went on to the DEV
\* worker of the third.
C24_Witness ==
    /\ pc = "dev_worker" /\ state.current_task_index = 2
    /\ \E p \in Positions : log[p] = [StoreUpdate("ROUTER", "S1.T02", "Failed", "ok")
                                         EXCEPT !.index = 1]
    /\ qa_attempts["S1.T02"] = MAX_RETRIES /\ dev_attempts["S1.T02"] = MAX_RETRIES
    /\ tasks["S1.T02"].status = "Failed" /\ tasks["S1.T01"].status = "Done"
    /\ state.retries = <<>>

\* The step in which the QA worker returns "QA Failed" for the task at the index.
QaFailedStep ==
    /\ pc = "qa_worker" /\ Len(log') > Len(log)
    /\ log'[Len(log) + 1] = WorkerReturn("QA", CurrentTask.id, "QA Failed")

\* The same, with qa_node's update of the status accepted by the store.
QaFailedStored ==
    /\ QaFailedStep
    /\ log'[Len(log')] = StoreUpdate("QA", CurrentTask.id, "QA Failed", "ok")

\* The retry budget of the task at the index is not used up by one more retry.
BudgetLeft == ~RetriesExhausted(Get(state.retries, CurrentTask.id, 0) + 1)

\* The feedback of the "QA Failed" result of a QA worker run on a context.
QaFeedback(ctb) ==
    {result.feedback : result \in {r \in AgentRuns("QA", ctb, fs_links) : r.status = "QA Failed"}}

\* qa_node's return on "QA Failed": same index, the counter one higher, the feedback
\* of the result kept, DEV next.
RetryReturned ==
    /\ state'.current_task_index = state.current_task_index
    /\ state'.retries = SetItem(state.retries, CurrentTask.id,
                                Get(state.retries, CurrentTask.id, 0) + 1)
    /\ state'.feedback_for_dev \in QaFeedback(worker_ctb)
    /\ state'.next_step = "DEV" /\ ~state'.error /\ pc' = "router"

\* The run is between a "QA Failed" that left budget and the DEV worker's next call.
Retrying ==
    /\ ~state.error /\ state.next_step = "DEV"
    /\ state.current_task_index < Len(state.tasks)
    /\ Get(state.retries, CurrentTask.id, 0) > 0 /\ ~AtThreshold(CurrentTask.id)

\* The router sends a retry to dev_node as it is, and the context dev_node hands to
\* the worker is the task's, with the QA feedback appended to the description.
RetryGoesToDev ==
    /\ pc = "router" /\ Retrying /\ pc' # pc => pc' = "dev_node" /\ state' = state
    /\ pc = "dev_node" /\ Retrying /\ pc' = "dev_worker" =>
          /\ worker_ctb'.task_id = CurrentTask.id
          /\ worker_ctb'.role = CurrentTask.assignee_role
          /\ state.feedback_for_dev
                 \in QaFeedback(build_ctb(CurrentTask, StoryId, "QA", ROLE_GUARDS))
          /\ worker_ctb'.objective = [description |-> CurrentTask.description,
                                      feedback |-> state.feedback_for_dev,
                                      retriever |-> FALSE]

QaDoneStep ==
    /\ pc = "qa_worker" /\ Len(log') > Len(log)
    /\ log'[Len(log) + 1] = WorkerReturn("QA", CurrentTask.id, "Done")

\* The same, with qa_node's update of the status accepted by the store.
QaDoneStored ==
    /\ QaDoneStep
    /\ log'[Len(log')] = StoreUpdate("QA", CurrentTask.id, "Done", "ok")

\* The retry counters of the tasks other than t are what they were.
OtherCountersKept(t) ==
    \A other \in AllTaskIds \ {t} :
        /\ other \in DOMAIN state'.retries <=> other \in DOMAIN state.retries
        /\ other \in DOMAIN state.retries => state'.retries[other] = state.retries[other]

\* qa_node's return on "Done": the status stored, the index moved on by one, the
\* task's counter cleared and no other counter changed, DEV next.
DoneAdvances ==
    /\ tasks'[CurrentTask.id].status = "Done"
    /\ state'.current_task_index = state.current_task_index + 1
    /\ CurrentTask.id \notin DOMAIN state'.retries
    /\ OtherCountersKept(CurrentTask.id)
    /\ state'.next_step = "DEV" /\ ~state'.error /\ pc' = "router"

\* C26 as stated: when QA returns "Done" for the task at index i, the task's persisted
\* status becomes "Done", current_task_index becomes i + 1, that task's retry counter
\* is cleared, the next step is DEV, and the retry counter of no other task is changed
\* by this step.
C26_QaDoneAdvances == [][QaDoneStep => DoneAdvances]_vars

\* C26 amended: the same, when the store accepts qa_node's update of the task status.
C26_QaDoneAdvancesUnlessConflict == [][QaDoneStored => DoneAdvances]_vars

\* The second task passed QA on its retry: "Done" in the store, its counter of 1
\* cleared, the index on the third task.
C26_Witness ==
    /\ pc = "router" /\ state.current_task_index = 2 /\ state.next_step = "DEV"
    /\ qa_attempts["S1.T02"] = 2 /\ dev_attempts["S1.T02"] = 2
    /\ tasks["S1.T02"].status = "Done"
    /\ state.retries = <<>>
    /\ log[Len(log)] = [StoreUpdate("QA", "S1.T02", "Done", "ok") EXCEPT !.index = 1]

\* The step in which the router moves the index past the task at it for exhausted
\* retries.
ExhaustedAdvance ==
    /\ pc = "router" /\ state.current_task_index < Len(state.tasks)
    /\ state'.current_task_index # state.current_task_index
    /\ CurrentTask.id \in exhausted' \ exhausted

\* C27: whenever current_task_index advances past a task because its retry budget is
\* exhausted, that task's persisted status is "Failed", its retry counter has been
\* removed, the index has grown by exactly 1, and the run's task snapshot equals the
\* store's records of the story; the run ends in FINISH if the new index is the number
\* of tasks, and DEV runs for the new index otherwise.
C27_ExhaustedTaskIsFailed ==
    [][ExhaustedAdvance =>
          /\ tasks'[CurrentTask.id].status = "Failed"
          /\ CurrentTask.id \notin DOMAIN state'.retries
          /\ state'.current_task_index = state.current_task_index + 1
          /\ state'.tasks = get_tasks_for_story(tasks', StoryId)
          /\ ~state'.error
          /\ pc' = IF state'.current_task_index = Len(state'.tasks)
                   THEN "END" ELSE "dev_node"]_vars

\* The last task used up its retries while another writer updated it: the router's
\* forced "Failed" was rejected, the index moved past the task, and the run ended in
\* FINISH with the task not "Failed" in the store.
C27_Witness ==
    /\ pc = "END" /\ ~state.error
    /\ state.current_task_index = 3 /\ Len(state.tasks) = 3
    /\ "S1.T03" \in exhausted
    /\ tasks["S1.T03"].status = "In Progress"
    /\ state.tasks[3].status = "In Progress"
    /\ log[Len(log)] = [StoreUpdate("ROUTER", "S1.T03", "Failed", "conflict")
                           EXCEPT !.index = 2]

(***************************************************************************)
(* Claims about the DEV step and the contexts of the workers.              *)
(***************************************************************************)
\* Every invocation of a DEV worker comes right after the accepted update of its task
\* to "In Progress".
InProgressBeforeWorker ==
    \A p \in Positions :
        IsCall(log[p], "DEV") =>
            /\ p > 1 /\ IsAccepted(log[p - 1]) /\ log[p - 1].step = "DEV"
            /\ log[p - 1].task = log[p].task /\ log[p - 1].status = "In Progress"

\* What dev_node does with a result the worker returned: the stored status is the
\* reported one, and QA is next only for a reported "Coding Complete".
ReportedOutcomeStored(result) ==
    /\ result.status \in {"Coding Complete", "Failed"}
    /\ tasks'[CurrentTask.id].status = result.status
    /\ state'.next_step = "QA" =>
          /\ result.status = "Coding Complete"
          /\ tasks'[CurrentTask.id].status = "Coding Complete"
          /\ state'.feedback_for_dev = NoFeedback

\* C28: in DEV the task's status is updated to "In Progress" before the worker is
\* invoked, the status persisted after the worker returns is the outcome the worker
\* reported, "Coding Complete" or "Failed", and QA is entered, with feedback_for_dev
\* cleared, only when the persisted outcome is "Coding Complete" as reported by the
\* worker.
C28_ReportedOutcomePersisted ==
    /\ []InProgressBeforeWorker
    /\ [][pc = "dev_worker" =>
            \A result \in AgentRuns(worker_ctb.role, worker_ctb, fs_links) :
                result.status # "raised" /\ DevWorkerReturn(result) =>
                    ReportedOutcomeStored(result)]_vars

\* The third task is assigned to role QA: its DEV worker is the QA agent, which reports
\* "Done" or "QA Failed"; "Coding Complete" was stored and the QA step entered.
C28_Witness ==
    /\ pc = "qa_worker" /\ state.current_task_index = 2
    /\ state.tasks[3].assignee_role = "QA"
    /\ "Coding Complete" \notin
           {r.status : r \in AgentRuns("QA", build_ctb(state.tasks[3], StoryId, "None", ROLE_GUARDS),
                                       fs_links)}
    /\ tasks["S1.T03"].status = "Coding Complete"
    /\ log[Len(log) - 1] = StoreUpdate("DEV", "S1.T03", "Coding Complete", "ok")
    /\ state.feedback_for_dev = NoFeedback

\* The steps in which qa_node and dev_node hand a context to their worker.
QaInvokes == pc = "qa_node" /\ pc' = "qa_worker"

DevInvokes == pc = "dev_node" /\ pc' = "dev_worker"

\* C29: the context built for the QA step of a task has role "QA", the guard patterns
\* of role QA (not those of the task's assignee role), the task's description and
\* acceptance criteria and the task id with the suffix ".QA"; the context built for
\* the DEV step has the task's assignee role, that role's guard patterns and the plain
\* task id.
C29_ContextOfEachStep ==
    [][/\ QaInvokes =>
            /\ worker_ctb'.role = "QA"
            /\ worker_ctb'.guard_paths = Get(ROLE_GUARDS, "QA", <<>>)
            /\ worker_ctb'.objective.description = CurrentTask.description
            /\ worker_ctb'.objective.feedback = NoFeedback
            /\ worker_ctb'.acceptance = CurrentTask.acceptance
            /\ worker_ctb'.task_id = CurrentTask.id \o ".QA"
            /\ worker_ctb'.story_id = StoryId
       /\ DevInvokes =>
            /\ worker_ctb'.role = CurrentTask.assignee_role
            /\ worker_ctb'.guard_paths = Get(ROLE_GUARDS, CurrentTask.assignee_role, <<>>)
            /\ worker_ctb'.task_id = CurrentTask.id
            /\ worker_ctb'.story_id = StoryId]_vars

\* The QA worker reviews the second task, whose assignee is FE: its context has the
\* patterns of QA, which are not those of FE, and the suffixed id.
C29_Witness ==
    /\ pc = "qa_worker" /\ state.current_task_index = 1
    /\ state.tasks[2].assignee_role = "FE" /\ roles_yaml
    /\ worker_ctb.role = "QA" /\ worker_ctb.task_id = "S1.T02.QA"
    /\ worker_ctb.guard_paths = StdRoleGuards["QA"]
    /\ worker_ctb.guard_paths # StdRoleGuards["FE"]
    /\ worker_ctb.objective.description = state.tasks[2].description

(***************************************************************************)
(* Claims about faults of the logging sink.                                *)
(***************************************************************************)
IsSinkFault(e) == e.ev = "sink"

\* Every worker that returned reported success and the store accepted every update.
AllSucceeded ==
    \A p \in Positions :
        /\ log[p].ev = "return" => log[p].status \in {"Done", "Coding Complete"}
        /\ log[p].ev = "update" => log[p].kind = "ok"

\* C30: a failure of the logging sink (the database log insert or the append to the
\* story's room document) never changes the run's outcome: a run whose workers and
\* store updates all succeed is not ended by it, neither by an exception nor in ERROR.
C30_SinkFaultIsHarmless ==
    (\E p \in Positions : IsSinkFault(log[p])) /\ AllSucceeded =>
        pc # "CRASH" /\ ~state.error

\* Every task's workers succeeded and every update was accepted; the append to the
\* room document after the last QA verdict raised, and the run ended by the exception
\* with the index still on the last task.
C30_Witness ==
    /\ pc = "CRASH" /\ AllSucceeded /\ nexternal = 0
    /\ log[Len(log)] = [SinkFault("QA", "S1.T03", "append_room_log") EXCEPT !.index = 2]
    /\ \A t \in AllTaskIds : tasks[t].status = "Done"
    /\ state.current_task_index = 2 /\ state.next_step = "QA"

(***************************************************************************)
(* Claims about the tasks a run works on.                                  *)
(***************************************************************************)
\* The run is in a DEV step: dev_node is entered or its worker is running.
InDevStep == pc \in {"dev_node", "dev_worker"}

\* C31: a task whose assignee_role is not one of the fixed role set is rejected before
\* any DEV step: it never becomes the current task of a DEV step, and the lookup of
\* the worker in DEV never fails with an unknown role.
C31_UnknownRoleRejected ==
    InDevStep => agent_factory(CurrentTask.assignee_role) # "ValueError"

\* The plan gave the first task to a role outside the set; it passed validation and
\* was stored, dev_node was entered for it and the lookup of its worker raised.
C31_Witness ==
    /\ pc = "CRASH" /\ ~state.error
    /\ state.next_step = "DEV" /\ state.current_task_index = 0
    /\ state.tasks # <<>> /\ state.tasks[1].assignee_role \notin AgentRoles
    /\ tasks["S1.T01"].assignee_role \notin AgentRoles
    /\ user_stories[StoryId].room_doc_path # NullPath /\ attachments
    /\ \A p \in Positions : ~IsCall(log[p], "DEV")

\* What a task record is created with and keeps.
CreatedColumns ==
    {"story_id", "kind", "description", "assignee_role", "estimate", "dependencies",
     "acceptance"}

\* Every task record of before the step is still there, with the columns it was
\* created with.
TaskRecordsKept ==
    \A t \in DOMAIN tasks :
        /\ t \in DOMAIN tasks'
        /\ \A column \in CreatedColumns : tasks'[t][column] = tasks[t][column]

\* The step in which the store accepts a client's update_task_status.
AcceptedTaskUpdate(c) ==
    /\ calls[c].pc = "write" /\ calls[c].fn = "update_task_status"
    /\ calls'[c].pc = "done" /\ calls'[c].kind = "ok"

\* C32: after a task record has been created, every operation leaves its id, story_id,
\* kind, description, assignee_role, estimate, dependencies and acceptance unchanged
\* and never deletes it; an accepted update_task_status changes only the status and
\* the version of the addressed task and leaves every other task and every story
\* record unchanged.
C32_TaskRecordsImmutable ==
    [][/\ TaskRecordsKept
       /\ \A c \in Clients :
             AcceptedTaskUpdate(c) =>
                 /\ user_stories' = user_stories
                 /\ DOMAIN tasks' = DOMAIN tasks
                 /\ \A t \in DOMAIN tasks \ {calls[c].id} : tasks'[t] = tasks[t]
                 /\ tasks'[calls[c].id] =
                        [tasks[calls[c].id] EXCEPT !.status = calls[c].value,
                                                   !.version = @ + 1]]_vars

\* A second task was created, and an update of the first was accepted with the second
\* as it was created.
C32_Witness ==
    /\ \E c \in Clients : /\ calls[c].pc = "done" /\ calls[c].fn = "update_task_status"
                          /\ calls[c].kind = "ok" /\ calls[c].id = "S1.T01"
                          /\ "S1.T02" \in DOMAIN calls[c].before
    /\ "S1.T02" \in DOMAIN tasks
    /\ tasks["S1.T02"].status = "To Do" /\ tasks["S1.T02"].version = SchemaDefaultVersion
    /\ tasks["S1.T01"].version = SchemaDefaultVersion + 1
    /\ tasks["S1.T01"].description = BindRow(PlanItem("S1.T01")).description

\* The feedback a QA step of the current task would give on a "QA Failed" verdict.
FeedbackOfCurrentTask == QaFeedback(build_ctb(CurrentTask, StoryId, "QA", ROLE_GUARDS))

\* A QA worker has returned "QA Failed" for the task.
QaFailedBefore(t) == \E p \in Positions : log[p] = WorkerReturn("QA", t, "QA Failed")

\* C33: whenever DEV builds the context of a task with QA feedback appended, that
\* feedback comes from a "QA Failed" verdict on that same task; the first DEV attempt
\* of a task, also of the task that follows one forced to "Failed" by retry
\* exhaustion, has no feedback appended to its objective.
C33_FeedbackIsOfSameTask ==
    [][DevInvokes =>
          LET feedback == worker_ctb'.objective.feedback
          IN  /\ feedback # NoFeedback =>
                    feedback \in FeedbackOfCurrentTask /\ QaFailedBefore(CurrentTask.id)
              /\ dev_attempts[CurrentTask.id] = 0 => feedback = NoFeedback]_vars

\* The first DEV attempt of the second task, after the first task was forced to
\* "Failed" by the router, is handed the feedback of the first task's QA verdict.
C33_Witness ==
    /\ pc = "dev_worker" /\ state.current_task_index = 1
    /\ "S1.T01" \in exhausted /\ tasks["S1.T01"].status = "Failed"
    /\ dev_attempts[CurrentTask.id] = 1
    /\ ~QaFailedBefore(CurrentTask.id)
    /\ worker_ctb.task_id = CurrentTask.id
    /\ worker_ctb.objective.feedback # NoFeedback
    /\ worker_ctb.objective.feedback \notin FeedbackOfCurrentTask
    /\ nexternal = 0

\* The declared dependencies of a task of the snapshot that the store holds.
StoredDependencies(task) ==
    {task.dependencies[i] : i \in DOMAIN task.dependencies} \cap DOMAIN tasks

\* C34: the DEV worker is never invoked for a task while one of the task's declared
\* dependencies has a persisted status other than "Done".
C34_DependenciesDoneFirst ==
    [][DevInvokes =>
          \A dep \in StoredDependencies(CurrentTask) : tasks'[dep].status = "Done"]_vars

\* The worker of S1.T02 is running, no other writer has written, and the task it
\* declares as its dependency was forced to "Failed".
C34_Witness ==
    /\ pc = "dev_worker" /\ state.current_task_index = 1 /\ CurrentTask.id = "S1.T02"
    /\ CurrentTask.dependencies = <<"S1.T01">>
    /\ tasks["S1.T01"].status = "Failed" /\ "S1.T01" \in exhausted
    /\ tasks["S1.T02"].status = "In Progress"
    /\ log[Len(log)] = WorkerCall("DEV", "S1.T02")
    /\ nexternal = 0

\* No other run or process has written a record of the story.
NoOtherWriter == nexternal = 0

\* The version the snapshot holds for each of its tasks is the stored one.
SnapshotVersionsStored ==
    \A i \in DOMAIN state.tasks : state.tasks[i].version = tasks[state.tasks[i].id].version

\* C35: in a run during which no other run or process writes the story's records,
\* every update the engine issues is accepted: the version held in the run's task
\* snapshot equals the version stored for that task, across DEV, QA, retries and the
\* retry-exhaustion path.
C35_UpdatesAcceptedWhenAlone ==
    NoOtherWriter =>
        /\ \A p \in Positions : log[p].ev = "update" => log[p].kind = "ok"
        /\ SnapshotVersionsStored

\* A run on its own in which a task was retried, forced to "Failed" by the router
\* and the next task taken up: updates of DEV, QA and the router were all accepted.
C35_Witness ==
    /\ NoOtherWriter /\ pc = "dev_worker" /\ state.current_task_index = 1
    /\ \E p \in Positions : log[p] = [StoreUpdate("ROUTER", "S1.T01", "Failed", "ok")
                                         EXCEPT !.index = 0]
    /\ \E p \in Positions : log[p] = [StoreUpdate("QA", "S1.T01", "QA Failed", "ok")
                                         EXCEPT !.index = 0]
    /\ log[Len(log) - 1] = StoreUpdate("DEV", "S1.T02", "In Progress", "ok")
    /\ tasks["S1.T01"].version > SchemaDefaultVersion + 4
    /\ state.tasks[2].version = tasks["S1.T02"].version

\* The run has ended in FINISH: the graph has ended and no node returned an error.
EndedInFinish == pc = "END" /\ ~state.error

\* C36: when a run during which no other run or process writes ends in FINISH,
\* every task of the story has the persisted status "Done" or "Failed"; none is left
\* "To Do", "In Progress", "Coding Complete" or "QA Failed".
C36_FinishLeavesNoOpenTask ==
    EndedInFinish /\ NoOtherWriter =>
        /\ DOMAIN tasks # {}
        /\ \A t \in DOMAIN tasks : tasks[t].status \in {"Done", "Failed"}

\* A run on its own ended in FINISH after the first task had used up its retries and
\* the two others were passed by QA.
C36_Witness ==
    /\ EndedInFinish /\ NoOtherWriter
    /\ state.current_task_index = 3 /\ Len(state.tasks) = 3
    /\ tasks["S1.T01"].status = "Failed" /\ exhausted = {"S1.T01"}
    /\ tasks["S1.T02"].status = "Done" /\ tasks["S1.T03"].status = "Done"

\* The PLAN step has ended the run in ERROR: plan_node returned the error, so the run
\* never got a task snapshot.
PlanEndedInError ==
    /\ state.error /\ state.tasks = <<>> /\ state.next_step = "FINISH"
    /\ pc \in {"router", "END"}

\* The run has written nothing to the story record.
StoryNotWritten ==
    \A p \in Positions :
        ~(log[p].ev = "update" /\ log[p].task = StoryId /\ log[p].kind = "ok")

\* C37: a PLAN step that ends the run in ERROR (attachment unreadable, plan rejected
\* by validation, or zero tasks) leaves the persisted story record as it was before
\* the run: its status is still "To Do" and its version and room_doc_path are
\* unchanged.
C37_FailedPlanLeavesStory ==
    PlanEndedInError /\ NoOtherWriter =>
        /\ user_stories[StoryId].status = "To Do"
        /\ user_stories[StoryId].version = SchemaDefaultVersion
        /\ StoryNotWritten

\* The PM's plan was rejected by validation and plan_node returned the error, after
\* the PM had set the story "In Progress".
C37_Witness ==
    /\ PlanEndedInError /\ NoOtherWriter /\ pc = "END"
    /\ plan.chosen /\ ~validate_plan(plan.response, StoryId).ok
    /\ log[Len(log)] = WorkerReturn("PLAN", PlanCtb.task_id, "Failed")
    /\ user_stories[StoryId].status = "In Progress"
    /\ user_stories[StoryId].version > SchemaDefaultVersion
    /\ tasks = <<>>

\* The step in which the QA worker returns "Failed" to qa_node.
QaWorkerFailedStep ==
    /\ pc = "qa_worker" /\ Len(log') > Len(log)
    /\ log'[Len(log) + 1] = WorkerReturn("QA", CurrentTask.id, "Failed")

\* The same, with qa_node's update of the status accepted by the store.
QaWorkerFailedStored ==
    /\ QaWorkerFailedStep
    /\ log'[Len(log')] = StoreUpdate("QA", CurrentTask.id, "Failed", "ok")

\* qa_node's return on a worker's "Failed": "Failed" in the store, no error, the index
\* one further with the retry counters cleared, and the router's next choice DEV for
\* the next task, or the end when there is none.
FailedAdvances ==
    /\ tasks'[CurrentTask.id].status = "Failed"
    /\ ~state'.error
    /\ state'.current_task_index = state.current_task_index + 1
    /\ state'.retries = <<>>
    /\ state'.next_step = "DEV" /\ pc' = "router"
    /\ router(state') = IF state'.current_task_index >= Len(state'.tasks)
                        THEN "END" ELSE "dev_node"

\* C38 as stated: when the worker invoked in the QA step returns status "Failed", the
\* task's persisted status becomes "Failed", the run does not end in ERROR,
\* current_task_index advances by 1 with the retry counters cleared, and DEV runs for
\* the next task (or the run ends in FINISH when there is none).
C38_QaWorkerFailedAdvances == [][QaWorkerFailedStep => FailedAdvances]_vars

\* C38 amended: the same, when the store accepts qa_node's update of the task status.
C38_QaWorkerFailedAdvancesUnlessConflict == [][QaWorkerFailedStored => FailedAdvances]_vars

\* The first task was retried once and then its QA worker returned "Failed": "Failed"
\* in the store, its counter of 1 cleared, the index on the second task, no error.
C38_Witness ==
    /\ pc = "router" /\ state.current_task_index = 1 /\ state.next_step = "DEV"
    /\ ~state.error /\ state.retries = <<>>
    /\ qa_attempts["S1.T01"] = 2 /\ dev_attempts["S1.T01"] = 2
    /\ tasks["S1.T01"].status = "Failed" /\ "S1.T01" \notin exhausted
    /\ log[Len(log)] = [StoreUpdate("QA", "S1.T01", "Failed", "ok") EXCEPT !.index = 0]
    /\ log[Len(log) - 1] = [WorkerReturn("QA", "S1.T01", "Failed") EXCEPT !.index = 0]

\* The ids of the tasks a plan response produces; none when validation rejects it.
PlanIds(response) ==
    LET validated == validate_plan(response, StoryId)
    IN  {IdText(validated.tasks[i].id) : i \in DOMAIN validated.tasks}

\* The step in which the PM has a validated plan whose ids the story's persisted
\* tasks already have.
PlanOverStoredTasks ==
    /\ pc = "pm_plan" /\ plan'.chosen
    /\ PlanIds(plan'.response) # {}
    /\ PlanIds(plan'.response) \subseteq DOMAIN tasks

\* C39: when PLAN runs for a story that already has persisted tasks with the ids the
\* plan produces, the existing task records keep their status and version, no new
\* task row is added, and the run ends in ERROR rather than with an exception that
\* escapes the state machine.
C39_ReplanEndsInError ==
    [][PlanOverStoredTasks =>
          /\ tasks' = tasks
          /\ state'.error /\ pc' = "router" /\ router(state') = "END"]_vars

\* The PM's validated plan met the records of an earlier run: nothing was written to
\* the tasks, and the run was ended by the exception of the INSERT.
C39_Witness ==
    /\ pc = "CRASH" /\ ~state.error /\ state.tasks = <<>>
    /\ plan.chosen /\ validate_plan(plan.response, StoryId).ok
    /\ PlanIds(plan.response) = DOMAIN tasks
    /\ plan.before = DOMAIN tasks
    /\ tasks = EarlierTasks
    /\ log[Len(log)] = WorkerReturn("PLAN", PlanCtb.task_id, "raised")
    /\ user_stories[StoryId].status = "In Progress"
====
